---- MODULE Spec2Model ----
(***************************************************************************)
(* Model of packages/core/src/refocus/index.ts: the transcript refocuser   *)
(* reconfigureFinalMessages and the helpers it is built from.              *)
(*                                                                         *)
(* Strings are modelled as sequences of tokens so that trim, split and     *)
(* join are real operations: WS is a whitespace token, NL a newline token, *)
(* every other token is a chunk of text without whitespace at its ends.    *)
(***************************************************************************)
EXTENDS Integers, Sequences, FiniteSets, TLC

\* ---------------------------------------------------------------- bounds
\* longest real conversation (messages after the three preamble slots)
MaxConv == 3
\* most lines of a file handed to readFileRange
MaxLines == 3
\* longest real conversation of the assistant-run inputs
MaxRun == 4
\* most file operations on one path in one conversation
MaxOps == 2
\* most hit lines of a search result beyond the 20 that are kept
MaxExtra == 2
\* longest real conversation of the inputs that are handed over twice
MaxSame == 2

\* ------------------------------------------------------ program constants
\* truncateSearchResult: at most 20 hit lines are kept
MaxResults == 20
\* truncateSearchResult: hit line content longer than this is shortened
MaxLineChars == 1000
\* deconstructMessages: number of preamble slots, finalMessages.slice(3)
PreambleLen == 3

WS == " "
NL == "\n"
PleaseContinueText == <<"Please continue.">>

\* a truthy value of arguments JSON that is not a string (e.g. a number)
NotAString == "#number"

\* -------------------------------------------------------- string helpers
RECURSIVE TrimLeft(_)
TrimLeft(s) ==
  IF s # <<>> /\ Head(s) \in {WS, NL} THEN TrimLeft(Tail(s)) ELSE s

RECURSIVE TrimRight(_)
TrimRight(s) ==
  IF s # <<>> /\ s[Len(s)] \in {WS, NL}
    THEN TrimRight(SubSeq(s, 1, Len(s) - 1)) ELSE s

\* String.prototype.trim
Trim(s) == TrimRight(TrimLeft(s))

\* String.prototype.split('\n'): always at least one piece; a terminal
\* newline yields a trailing empty piece
RECURSIVE SplitNL(_)
SplitNL(s) ==
  IF \E i \in 1..Len(s) : s[i] = NL
    THEN LET i == CHOOSE k \in 1..Len(s) :
                    s[k] = NL /\ \A j \in 1..(k - 1) : s[j] # NL
         IN  <<SubSeq(s, 1, i - 1)>> \o SplitNL(SubSeq(s, i + 1, Len(s)))
    ELSE <<s>>

\* Array.prototype.join('\n')
RECURSIVE JoinNL(_)
JoinNL(ss) ==
  IF ss = <<>> THEN <<>>
  ELSE IF Len(ss) = 1 THEN ss[1]
  ELSE ss[1] \o <<NL>> \o JoinNL(Tail(ss))

SeqToSet(s) == {s[i] : i \in 1..Len(s)}

RECURSIVE SelectIdx(_, _, _)
\* Array.prototype.filter, by position: the elements s[i] with keep[i]
SelectIdx(s, keep, i) ==
  IF i > Len(s) THEN <<>>
  ELSE (IF keep[i] THEN <<s[i]>> ELSE <<>>) \o SelectIdx(s, keep, i + 1)

\* ------------------------------------------------------- message contents
\* kind "text": an ordinary string, toks its text
\* kind "json": a string that parses as a JSON object with a string field
\*              output; out = the lines of output, canon = the string is
\*              exactly what JSON.stringify produces for the parsed object
\* kind "jsonother": a string that parses as JSON without a string output
\* kind "lines": a string that does not parse as JSON, out = its lines
\* kind "nonstring": content that is not a string (null or a parts array)
TextContent(toks) ==
  [kind |-> "text", toks |-> toks, out |-> <<>>, canon |-> TRUE]
JsonContent(lines, canon) ==
  [kind |-> "json", toks |-> <<>>, out |-> lines, canon |-> canon]
JsonOtherContent ==
  [kind |-> "jsonother", toks |-> <<>>, out |-> <<>>, canon |-> TRUE]
LinesContent(lines) ==
  [kind |-> "lines", toks |-> <<>>, out |-> lines, canon |-> TRUE]
NonStringContent ==
  [kind |-> "nonstring", toks |-> <<>>, out |-> <<>>, canon |-> TRUE]

IsString(c) == c.kind # "nonstring"

\* the characters of a string content, for trim(); JSON text and the text of
\* search lines are never blank
StringToks(c) ==
  IF c.kind = "text" THEN c.toks ELSE <<"{json}">>

\* one line of a search result: hit = matches /^L\d+:/, len = number of
\* characters after the "L<n>: " prefix, no = which line it is,
\* more = N of a synthetic "[... truncated N more results]" line (else 0)
SearchLine(hit, no, len) == [hit |-> hit, no |-> no, len |-> len, more |-> 0]
TruncationLine(n) == [hit |-> FALSE, no |-> 0, len |-> 0, more |-> n]

\* ------------------------------------------------------------- tool calls
\* function.arguments after JSON.parse(arguments || '{}'):
\*   json = "invalid" (parse throws), "null", "scalar" (number, string,
\*   boolean or array without the probed fields), "object"
\* An absent field and an empty string are both "" (both falsy);
\* content is "absent", "empty" (the empty string) or "text";
\* offset 0 stands for an absent offset as well (offset || 0);
\* limit is NoLimit (absent) or the natural number given.
NoLimit == -1

Args(json, ap, aps, fp, content, offset, limit) ==
  [json |-> json, absolute_path |-> ap, absolute_paths |-> aps,
   file_path |-> fp, content |-> content, offset |-> offset, limit |-> limit]

NoFields(json) == Args(json, "", <<>>, "", "absent", 0, NoLimit)

ToolCall(id, name, args) == [id |-> id, name |-> name, arguments |-> args]

\* ---------------------------------------------------------------- messages
\* tcs: "absent" (no tool_calls key), "null" (key present, value
\* undefined/null), "list" (an array, possibly empty)
Message(role, content, tcs, tool_calls, tool_call_id) ==
  [role |-> role, content |-> content, tcs |-> tcs,
   tool_calls |-> tool_calls, tool_call_id |-> tool_call_id]

SystemMsg(content) == Message("system", content, "absent", <<>>, "")
UserMsg(toks) == Message("user", TextContent(toks), "absent", <<>>, "")
AssistantMsg(toks) == Message("assistant", TextContent(toks), "absent", <<>>, "")
AssistantCalls(toks, calls) ==
  Message("assistant", TextContent(toks), "list", calls, "")
ToolMsg(id, content) == Message("tool", content, "absent", <<>>, id)

\* message.role === 'assistant' && 'tool_calls' in message && message.tool_calls
HasToolCalls(m) == m.role = "assistant" /\ m.tcs = "list"


\* ------------------------------------------------------------------ state
VARIABLES
  finalMessages,  \* the argument of reconfigureFinalMessages
  disk,           \* the filesystem: path -> [ok, data]
  pc,             \* "start", "returned", "thrown", "returned2", "thrown2",
                  \* "rewritten", "returnedSame", "returnedChanged"
  newMessages,    \* the list returned by the first call
  newMessages2,   \* the list returned by the call on newMessages
  logWritten      \* the log entry of the last returned list: "none", or
                  \* "attempted" (an append that fails is caught and changes
                  \* nothing else)

vars == <<finalMessages, disk, pc, newMessages, newMessages2, logWritten>>

\* ------------------------------------------- extractFileOperationFromToolCall
FileOp(type, filepath, id) ==
  [type |-> type, filepath |-> filepath, toolCallId |-> id]
\* the function returns null
NullOp == FileOp("none", "", "")
\* the function throws a TypeError (property access on null)
ThrowOp == FileOp("throw", "", "")

extractFileOperationFromToolCall(toolCall) ==
  LET args == toolCall.arguments IN
  IF toolCall.name = "" \/ toolCall.id = "" THEN NullOp
  ELSE IF args.json = "invalid" THEN NullOp
  ELSE IF toolCall.name \in {"read_file", "read_many_files"} THEN
         IF args.json = "null" THEN ThrowOp
         ELSE IF args.absolute_path \notin {"", NotAString}
           THEN FileOp("read", args.absolute_path, toolCall.id)
         ELSE IF args.absolute_paths # <<>>
           THEN FileOp("read", args.absolute_paths[1], toolCall.id)
         ELSE NullOp
  ELSE IF toolCall.name = "write_file" THEN
         IF args.json = "null" THEN ThrowOp
         ELSE IF /\ args.file_path \notin {"", NotAString}
                 /\ args.content = "text"
           THEN FileOp("write", args.file_path, toolCall.id)
         ELSE NullOp
  ELSE IF toolCall.name = "replace" THEN
         IF args.json = "null" THEN ThrowOp
         ELSE IF args.file_path \notin {"", NotAString}
           THEN FileOp("edit", args.file_path, toolCall.id)
         ELSE NullOp
  ELSE NullOp

\* --------------------------------------------------------------- readFileRange
EmptyLineMap == [n \in {} |-> <<>>]

Max(a, b) == IF a > b THEN a ELSE b
Min(a, b) == IF a < b THEN a ELSE b

\* offset 0 stands for undefined as well (offset || 0); a limit that is
\* undefined or 0 is falsy (limit ? .. : ..)
readFileRange(filepath, offset, limit) ==
  IF filepath \notin DOMAIN disk \/ ~disk[filepath].ok THEN EmptyLineMap
  ELSE LET lines == SplitNL(disk[filepath].data)
           startLine == Max(0, offset)
           endLine == IF limit \notin {NoLimit, 0}
                        THEN Min(Len(lines), startLine + limit)
                      ELSE Len(lines)
       IN  [n \in (startLine + 1)..endLine |-> lines[n]]

\* ------------------------------------------------------ buildVirtualFileSystem
\* the VFS object as its entries in key (insertion) order
VfsPaths(vfs) == [i \in 1..Len(vfs) |-> vfs[i].path]
VfsHas(vfs, p) == \E i \in 1..Len(vfs) : vfs[i].path = p
VfsGet(vfs, p) == vfs[CHOOSE i \in 1..Len(vfs) : vfs[i].path = p].lines

\* mutant of VfsSet: every assignment adds an entry
VfsSet_AlwaysAppend(vfs, p, lines) == Append(vfs, [path |-> p, lines |-> lines])

\* vfs[p] = lines: a new key goes last, an existing key keeps its place
VfsSet(vfs, p, lines) ==
  IF VfsHas(vfs, p)
    THEN [i \in 1..Len(vfs) |->
            IF vfs[i].path = p THEN [path |-> p, lines |-> lines] ELSE vfs[i]]
    ELSE Append(vfs, [path |-> p, lines |-> lines])

\* mutant of ObjectAssign: the source replaces the target
ObjectAssign_Replace(target, source) == source

\* Object.assign(target, source)
ObjectAssign(target, source) ==
  [n \in (DOMAIN target) \cup (DOMAIN source) |->
     IF n \in DOMAIN source THEN source[n] ELSE target[n]]

\* mutant of VfsStep: a read is tracked from the text of its tool result
VfsStep_FromResult(vfs, pair) ==
  LET operation == extractFileOperationFromToolCall(pair.toolCall) IN
  IF operation.type \in {"none", "throw"} \/ operation.filepath = "" THEN vfs
  ELSE IF operation.type = "read" THEN
    LET resultLines == SplitNL(StringToks(pair.result))
        fileLines == [n \in 1..Len(resultLines) |-> resultLines[n]]
        old == IF VfsHas(vfs, operation.filepath)
                 THEN VfsGet(vfs, operation.filepath) ELSE EmptyLineMap
    IN  VfsSet(vfs, operation.filepath, ObjectAssign(old, fileLines))
  ELSE VfsSet(vfs, operation.filepath, readFileRange(operation.filepath, 0, NoLimit))

\* one iteration of the loop over toolCallPairs
VfsStep(vfs, pair) ==
  LET operation == extractFileOperationFromToolCall(pair.toolCall) IN
  IF operation.type \in {"none", "throw"} \/ operation.filepath = "" THEN vfs
  ELSE IF operation.type = "read" THEN
    LET fileLines == readFileRange(operation.filepath,
                                   pair.toolCall.arguments.offset,
                                   pair.toolCall.arguments.limit)
        old == IF VfsHas(vfs, operation.filepath)
                 THEN VfsGet(vfs, operation.filepath) ELSE EmptyLineMap
    IN  VfsSet(vfs, operation.filepath, ObjectAssign(old, fileLines))
  ELSE VfsSet(vfs, operation.filepath, readFileRange(operation.filepath, 0, NoLimit))

RECURSIVE VfsFold(_, _)
VfsFold(vfs, pairs) ==
  IF pairs = <<>> THEN vfs
  ELSE VfsFold(VfsStep(vfs, Head(pairs)), Tail(pairs))

buildVirtualFileSystem(toolCallPairs) == VfsFold(<<>>, toolCallPairs)

\* ------------------------------------------ filterToolCallsForVirtualFileSystem
\* ids (id || '') of the pairs that classify as a file operation
FileOperationIds(toolCallPairs) ==
  {toolCallPairs[i].toolCall.id : i \in
     {j \in 1..Len(toolCallPairs) :
        extractFileOperationFromToolCall(toolCallPairs[j].toolCall).type
          \notin {"none", "throw"}}}

filterToolCallsForVirtualFileSystem(toolCallPairs) ==
  LET fileOperationToolCallIds == FileOperationIds(toolCallPairs) IN
  SelectIdx(toolCallPairs,
            [i \in 1..Len(toolCallPairs) |->
               toolCallPairs[i].toolCall.id \notin fileOperationToolCallIds],
            1)

\* ------------------------------------------------------ analyzeToolCallStrategy
Strategy(keep, ids) == [keepLastToolSequence |-> keep, lastToolCallIds |-> ids]

\* the tool_calls of the first assistant message that has a call with this id
findAssistantMessageWithToolCalls(realConversation, toolCallId) ==
  LET owners == {i \in 1..Len(realConversation) :
                   /\ HasToolCalls(realConversation[i])
                   /\ \E k \in 1..Len(realConversation[i].tool_calls) :
                        realConversation[i].tool_calls[k].id = toolCallId}
  IN  IF owners = {} THEN [found |-> FALSE, calls |-> <<>>]
      ELSE [found |-> TRUE,
            calls |-> realConversation[CHOOSE i \in owners :
                                         \A j \in owners : i <= j].tool_calls]

\* mutant of KeepFor: only the id of the last result is kept, not its siblings
KeepFor_OnlyLast(realConversation, toolMessage) ==
  Strategy(TRUE, IF toolMessage.tool_call_id # ""
                   THEN {toolMessage.tool_call_id} ELSE {})

\* the part shared by the two cases: the strategy for a last tool result
KeepFor(realConversation, toolMessage) ==
  LET lastToolCallId == toolMessage.tool_call_id
      owner == findAssistantMessageWithToolCalls(realConversation, lastToolCallId)
  IN  IF lastToolCallId # "" /\ owner.found
        THEN Strategy(TRUE, {owner.calls[k].id : k \in 1..Len(owner.calls)} \ {""})
        ELSE Strategy(TRUE, IF lastToolCallId # "" THEN {lastToolCallId} ELSE {})

IsPleaseContinue(m) ==
  IsString(m.content) /\ Trim(StringToks(m.content)) = PleaseContinueText

\* mutant of analyzeToolCallStrategy: a trailing prompt keeps the last cycle
\* whatever stands before it
analyzeToolCallStrategy_AnyContinue(realConversation) ==
  LET n == Len(realConversation) IN
  IF n = 0 THEN Strategy(FALSE, {})
  ELSE IF realConversation[n].role = "tool"
    THEN KeepFor(realConversation, realConversation[n])
  ELSE IF /\ realConversation[n].role = "user"
          /\ IsPleaseContinue(realConversation[n])
          /\ n >= 2
    THEN KeepFor(realConversation, realConversation[n - 1])
  ELSE Strategy(FALSE, {})

\* mutant of analyzeToolCallStrategy: a trailing tool result is not recognised
analyzeToolCallStrategy_NoCaseA(realConversation) ==
  LET n == Len(realConversation) IN
  IF n = 0 THEN Strategy(FALSE, {})
  ELSE IF /\ realConversation[n].role = "user"
          /\ IsPleaseContinue(realConversation[n])
          /\ n >= 2
          /\ realConversation[n - 1].role = "tool"
    THEN KeepFor(realConversation, realConversation[n - 1])
  ELSE Strategy(FALSE, {})

analyzeToolCallStrategy(realConversation) ==
  LET n == Len(realConversation) IN
  IF n = 0 THEN Strategy(FALSE, {})
  ELSE IF realConversation[n].role = "tool"
    THEN KeepFor(realConversation, realConversation[n])
  ELSE IF /\ realConversation[n].role = "user"
          /\ IsPleaseContinue(realConversation[n])
          /\ n >= 2
          /\ realConversation[n - 1].role = "tool"
    THEN KeepFor(realConversation, realConversation[n - 1])
  ELSE Strategy(FALSE, {})


\* ---------------------------------------------------------- deconstructMessages
\* every tool call of every assistant message, in scan order
RECURSIVE AllToolCalls(_)
AllToolCalls(messages) ==
  IF messages = <<>> THEN <<>>
  ELSE (IF HasToolCalls(Head(messages)) THEN Head(messages).tool_calls ELSE <<>>)
       \o AllToolCalls(Tail(messages))

\* toolCallMap: calls with a non-empty id, a later call replaces an earlier one
ToolCallMapHas(messages, id) ==
  LET calls == AllToolCalls(messages) IN
  id # "" /\ \E k \in 1..Len(calls) : calls[k].id = id
ToolCallMapGet(messages, id) ==
  LET calls == AllToolCalls(messages)
      ks == {k \in 1..Len(calls) : calls[k].id = id}
  IN  calls[CHOOSE k \in ks : \A j \in ks : j <= k]

\* second pass of deconstructMessages: the pairs to move to the system prompt
MovablePairs(messages, strategy) ==
  LET take == [i \in 1..Len(messages) |->
                 /\ messages[i].role = "tool"
                 /\ messages[i].tool_call_id # ""
                 /\ ToolCallMapHas(messages, messages[i].tool_call_id)
                 /\ IsString(messages[i].content)
                 /\ \/ ~strategy.keepLastToolSequence
                    \/ messages[i].tool_call_id \notin strategy.lastToolCallIds]
      taken == SelectIdx(messages, take, 1)
  IN  [i \in 1..Len(taken) |->
         [toolCall |-> ToolCallMapGet(messages, taken[i].tool_call_id),
          result |-> taken[i].content]]

Deconstructed(sys, ctx, ack, conv, pairs, vfs, ids, threw) ==
  [systemPrompt |-> sys, cannedUserContext |-> ctx, cannedAssistantReply |-> ack,
   realConversation |-> conv, toolCallPairs |-> pairs, virtualFileSystem |-> vfs,
   fileOperationToolCallIds |-> ids, threw |-> threw]

\* the string content of a preamble slot, '' when role or type do not match
PreambleField(m, role) ==
  IF m.role = role /\ IsString(m.content) THEN StringToks(m.content) ELSE <<>>

\* mutant of SliceReal: only the system message is cut off
SliceReal_FromOne(messages) == SubSeq(messages, 2, Len(messages))

\* mutant of SliceReal: the slice starts one message early
SliceReal_OffByOne(messages) == SubSeq(messages, PreambleLen, Len(messages))

\* finalMessages.slice(3)
SliceReal(messages) == SubSeq(messages, PreambleLen + 1, Len(messages))

\* mutant of deconstructMessages: a short input is paired and tracked like a
\* long one
deconstructMessages_ShortPairs(messages) ==
  LET short == Len(messages) < PreambleLen
      realConversation == IF short THEN messages ELSE SliceReal(messages)
      strategy == analyzeToolCallStrategy(realConversation)
      toolCallPairs == MovablePairs(messages, strategy)
      threw == \E i \in 1..Len(toolCallPairs) :
                 extractFileOperationFromToolCall(toolCallPairs[i].toolCall).type
                   = "throw"
  IN  IF threw
        THEN Deconstructed(<<>>, <<>>, <<>>, <<>>, <<>>, <<>>, {}, TRUE)
        ELSE Deconstructed(
               IF short THEN <<>> ELSE PreambleField(messages[1], "system"),
               IF short THEN <<>> ELSE PreambleField(messages[2], "user"),
               IF short THEN <<>> ELSE PreambleField(messages[3], "assistant"),
               realConversation,
               filterToolCallsForVirtualFileSystem(toolCallPairs),
               buildVirtualFileSystem(toolCallPairs),
               FileOperationIds(toolCallPairs),
               FALSE)

deconstructMessages(messages) ==
  IF Len(messages) < PreambleLen
    THEN Deconstructed(<<>>, <<>>, <<>>, messages, <<>>, <<>>, {}, FALSE)
  ELSE
    LET realConversation == SliceReal(messages)
        strategy == analyzeToolCallStrategy(realConversation)
        toolCallPairs == MovablePairs(messages, strategy)
        \* the first classification of a pair with arguments null throws
        threw == \E i \in 1..Len(toolCallPairs) :
                   extractFileOperationFromToolCall(toolCallPairs[i].toolCall).type
                     = "throw"
    IN  IF threw
          THEN Deconstructed(<<>>, <<>>, <<>>, <<>>, <<>>, <<>>, {}, TRUE)
          ELSE Deconstructed(PreambleField(messages[1], "system"),
                             PreambleField(messages[2], "user"),
                             PreambleField(messages[3], "assistant"),
                             realConversation,
                             filterToolCallsForVirtualFileSystem(toolCallPairs),
                             buildVirtualFileSystem(toolCallPairs),
                             FileOperationIds(toolCallPairs),
                             FALSE)

\* --------------------------------------------------------- truncateSearchResult
\* the replace() of one retained hit line: content over the limit is cut
\* to the limit plus '...'
TruncateLine(line) ==
  IF line.len <= MaxLineChars THEN line
  ELSE [line EXCEPT !.len = MaxLineChars + 3]

RECURSIVE TruncateLoop(_, _, _, _)
TruncateLoop(lines, resultCount, totalResults, truncatedLines) ==
  IF lines = <<>> THEN truncatedLines
  ELSE IF Head(lines).hit THEN
    IF resultCount + 1 > MaxResults
      THEN Append(truncatedLines, TruncationLine(totalResults - MaxResults))
      ELSE TruncateLoop(Tail(lines), resultCount + 1, totalResults,
                        Append(truncatedLines, TruncateLine(Head(lines))))
  ELSE IF resultCount <= MaxResults
    THEN TruncateLoop(Tail(lines), resultCount, totalResults,
                      Append(truncatedLines, Head(lines)))
    ELSE TruncateLoop(Tail(lines), resultCount, totalResults, truncatedLines)

HitCount(lines) == Cardinality({i \in 1..Len(lines) : lines[i].hit})

\* mutant of truncateSearchResult: every result is returned as it is
truncateSearchResult_Identity(functionName, result) == result

\* mutant of truncateSearchResult: the function name is not looked at
truncateSearchResult_AnyName(functionName, result) ==
  IF result.kind = "json" /\ result.out # <<>>
    THEN JsonContent(TruncateLoop(result.out, 0, HitCount(result.out), <<>>), TRUE)
  ELSE result

truncateSearchResult(functionName, result) ==
  IF functionName # "search_file_content" THEN result
  ELSE IF result.kind = "json" /\ result.out # <<>>
    THEN JsonContent(TruncateLoop(result.out, 0, HitCount(result.out), <<>>), TRUE)
  ELSE result

\* ------------------------------------------------------------ the system prompt
\* The prompt is the sequence of its blocks, in the order they are appended.
Block(k, name, a, b, body) ==
  [k |-> k, name |-> name, a |-> a, b |-> b, body |-> body]

\* extractContextInfo: a marker token is followed by the value it introduces
ProbeContext(ctx, marker, default) ==
  LET hits == {i \in 1..(Len(ctx) - 1) : ctx[i] = marker} IN
  IF hits = {} THEN default
  ELSE ctx[(CHOOSE i \in hits : \A j \in hits : i <= j) + 1]

extractContextInfo(cannedUserContext) ==
  <<ProbeContext(cannedUserContext, "Today's date is ", "new Date()"),
    ProbeContext(cannedUserContext, "My operating system is: ", "unknown"),
    ProbeContext(cannedUserContext, "I'm currently working in the directory: ",
                 "process.cwd()")>>

\* groupLinesIntoRanges: the loop over the sorted line numbers
RECURSIVE SortedSeq(_)
SortedSeq(S) ==
  IF S = {} THEN <<>>
  ELSE LET m == CHOOSE x \in S : \A y \in S : x <= y
       IN  <<m>> \o SortedSeq(S \ {m})

RECURSIVE RangeLoop(_, _, _, _, _)
RangeLoop(lines, sorted, i, currentRange, ranges) ==
  IF i > Len(sorted) THEN Append(ranges, currentRange)
  ELSE IF sorted[i] = sorted[i - 1] + 1
    THEN RangeLoop(lines, sorted, i + 1,
                   [currentRange EXCEPT !.end = sorted[i],
                                        !.content = Append(@, lines[sorted[i]])],
                   ranges)
    ELSE RangeLoop(lines, sorted, i + 1,
                   [start |-> sorted[i], end |-> sorted[i],
                    content |-> <<lines[sorted[i]]>>],
                   Append(ranges, currentRange))

groupLinesIntoRanges(lines) ==
  LET sorted == SortedSeq(DOMAIN lines) IN
  IF sorted = <<>> THEN <<>>
  ELSE RangeLoop(lines, sorted, 2,
                 [start |-> sorted[1], end |-> sorted[1],
                  content |-> <<lines[sorted[1]]>>],
                 <<>>)

\* generateVirtualFileSystemContext: the blocks of file entry i
FileEntryBlocks(vfs, i) ==
  LET ranges == groupLinesIntoRanges(vfs[i].lines) IN
  <<Block("file-heading", vfs[i].path, 0, 0, <<>>)>>
  \o (IF DOMAIN vfs[i].lines = {}
        \* the placeholder, and 'continue': the divider below is skipped
        THEN <<Block("not-tracked", "", 0, 0, <<>>)>>
        ELSE [r \in 1..Len(ranges) |->
                Block("range", "", ranges[r].start, ranges[r].end,
                      JoinNL(ranges[r].content))]
             \o (IF i < Len(vfs)
                   THEN <<Block("end-of-file", "", 0, 0, <<>>)>> ELSE <<>>))

RECURSIVE FileEntriesFrom(_, _)
FileEntriesFrom(vfs, i) ==
  IF i > Len(vfs) THEN <<>>
  ELSE FileEntryBlocks(vfs, i) \o FileEntriesFrom(vfs, i + 1)

generateVirtualFileSystemContext(vfs) ==
  IF vfs = <<>> THEN <<>>
  ELSE <<Block("files-header", "", 0, 0, <<>>)>> \o FileEntriesFrom(vfs, 1)

RECURSIVE ToolEntriesFrom(_, _)
ToolEntriesFrom(toolCallPairs, i) ==
  IF i > Len(toolCallPairs) THEN <<>>
  ELSE <<Block("tool-call", toolCallPairs[i].toolCall.name, 0, 0,
               <<toolCallPairs[i].toolCall.arguments,
                 truncateSearchResult(toolCallPairs[i].toolCall.name,
                                      toolCallPairs[i].result)>>)>>
       \o (IF i < Len(toolCallPairs)
             THEN <<Block("end-of-tool-call", "", 0, 0, <<>>)>> ELSE <<>>)
       \o ToolEntriesFrom(toolCallPairs, i + 1)

buildContextStuffedSystemPrompt(toolCallPairs, cannedUserContext, virtualFileSystem) ==
  <<Block("preamble", "", 0, 0, <<>>),
    Block("environment", "", 0, 0, extractContextInfo(cannedUserContext))>>
  \o generateVirtualFileSystemContext(virtualFileSystem)
  \o (IF toolCallPairs # <<>>
        THEN <<Block("tools-header", "", 0, 0, <<>>)>>
             \o ToolEntriesFrom(toolCallPairs, 1)
        ELSE <<>>)

\* the composed prompt as the content of the emitted system message
PromptContent(blocks) ==
  [kind |-> "prompt", toks |-> <<>>, out |-> blocks, canon |-> TRUE]


\* ----------------------------------------- collapseConsecutiveAssistantMessages
\* content && typeof content === 'string' && content.trim() !== ''
HasContent(m) ==
  IsString(m.content) /\ Trim(StringToks(m.content)) # <<>>

\* the inner while loop: index after the run of assistants that starts at i
RECURSIVE RunEnd(_, _)
RunEnd(messages, j) ==
  IF j <= Len(messages) /\ messages[j].role = "assistant"
    THEN RunEnd(messages, j + 1) ELSE j

\* trimmed non-empty contents of messages[i..j-1], first occurrences only
RECURSIVE RunContents(_, _, _, _)
RunContents(messages, i, j, acc) ==
  IF i >= j THEN acc
  ELSE LET trimmedContent == Trim(StringToks(messages[i].content))
       IN  RunContents(messages, i + 1, j,
             IF HasContent(messages[i]) /\ trimmedContent \notin SeqToSet(acc)
               THEN Append(acc, trimmedContent) ELSE acc)

RECURSIVE CollapseFrom(_, _)
CollapseFrom(messages, i) ==
  IF i > Len(messages) THEN <<>>
  ELSE IF messages[i].role = "assistant" THEN
    LET j == RunEnd(messages, i)
        consecutiveAssistantContents == RunContents(messages, i, j, <<>>)
        allToolCalls == AllToolCalls(SubSeq(messages, i, j - 1))
    IN  (IF consecutiveAssistantContents # <<>> \/ allToolCalls # <<>>
           THEN <<Message("assistant",
                          TextContent(JoinNL(consecutiveAssistantContents)),
                          IF allToolCalls # <<>> THEN "list" ELSE "absent",
                          allToolCalls, "")>>
           ELSE <<>>)
        \o CollapseFrom(messages, j)
  ELSE <<messages[i]>> \o CollapseFrom(messages, i + 1)

\* mutant of collapseConsecutiveAssistantMessages: the list is returned as built
collapseConsecutiveAssistantMessages_Off(messages) == messages

collapseConsecutiveAssistantMessages(messages) == CollapseFrom(messages, 1)

\* -------------------------------------------------------- buildNewMessagesArray
\* the first call with this id on the first assistant message that has one
findToolCallById(messages, toolCallId) ==
  LET owner == findAssistantMessageWithToolCalls(messages, toolCallId) IN
  IF ~owner.found THEN [found |-> FALSE, name |-> ""]
  ELSE [found |-> TRUE,
        name |-> owner.calls[CHOOSE k \in 1..Len(owner.calls) :
                   /\ owner.calls[k].id = toolCallId
                   /\ \A j \in 1..(k - 1) : owner.calls[j].id # toolCallId].name]

MovedToSystemPromptToolCallIds(deconstructed) ==
  ({deconstructed.toolCallPairs[i].toolCall.id :
      i \in 1..Len(deconstructed.toolCallPairs)} \ {""})
  \cup deconstructed.fileOperationToolCallIds

\* message.role === 'tool': kept unless its call was moved
RebuiltTool(deconstructed, moved, message) ==
  IF message.tool_call_id # "" /\ message.tool_call_id \notin moved
    THEN LET functionName ==
               findToolCallById(deconstructed.realConversation,
                                message.tool_call_id).name
         IN  <<[message EXCEPT !.content =
                  IF IsString(message.content)
                    THEN truncateSearchResult(functionName, message.content)
                    ELSE message.content]>>
    ELSE <<>>

\* mutant of KeptToolCalls: the filter forgets the moved ids
KeptToolCalls_IgnoreMoved(message, moved) ==
  SelectIdx(message.tool_calls,
            [k \in 1..Len(message.tool_calls) |-> message.tool_calls[k].id # ""],
            1)

\* mutant of KeptToolCalls: no call survives the filter
KeptToolCalls_None(message, moved) == <<>>

\* message.tool_calls.filter(toolCall => toolCall.id && !moved.has(toolCall.id))
KeptToolCalls(message, moved) ==
  SelectIdx(message.tool_calls,
            [k \in 1..Len(message.tool_calls) |->
               /\ message.tool_calls[k].id # ""
               /\ message.tool_calls[k].id \notin moved],
            1)

\* message.role === 'assistant' && 'tool_calls' in message
RebuiltAssistant(moved, message) ==
  IF message.tcs = "list" THEN
    IF KeptToolCalls(message, moved) # <<>>
      THEN <<Message("assistant", message.content, "list",
                     KeptToolCalls(message, moved), "")>>
    ELSE IF HasContent(message)
      THEN <<Message("assistant", message.content, "absent", <<>>, "")>>
    ELSE <<>>
  ELSE IF HasContent(message) THEN <<message>> ELSE <<>>

\* mutant of RebuiltUser: a user message is kept only at the end of the
\* conversation
RebuiltUser_OnlyLast(strategy, isLastMessage, message) ==
  IF ~isLastMessage THEN <<>>
  ELSE IF IsPleaseContinue(message) THEN
    IF strategy.keepLastToolSequence THEN <<message>> ELSE <<>>
  ELSE <<message>>

\* mutant of RebuiltUser: the position of the prompt is not looked at
RebuiltUser_AnyPosition(strategy, isLastMessage, message) ==
  IF IsPleaseContinue(message) THEN
    IF strategy.keepLastToolSequence THEN <<message>> ELSE <<>>
  ELSE <<message>>

\* message.role === 'user'
RebuiltUser(strategy, isLastMessage, message) ==
  IF IsPleaseContinue(message) THEN
    IF isLastMessage /\ strategy.keepLastToolSequence THEN <<message>> ELSE <<>>
  ELSE <<message>>

\* mutant of RebuiltOther: system messages of the conversation are kept too
RebuiltOther_KeepSystem(message) == <<message>>

\* the last branch: every other message except a system message is kept
RebuiltOther(message) ==
  IF message.role # "system" THEN <<message>> ELSE <<>>

\* mutant of Rebuilt: the loop walks the conversation from its end
Rebuilt_FromEnd(deconstructed, strategy, moved, i) ==
  LET n == Len(deconstructed.realConversation)
      message == deconstructed.realConversation[n + 1 - i]
  IN  IF message.role = "tool" THEN RebuiltTool(deconstructed, moved, message)
      ELSE IF message.role = "assistant" /\ message.tcs # "absent"
        THEN RebuiltAssistant(moved, message)
      ELSE IF message.role = "user"
        THEN RebuiltUser(strategy, n + 1 - i = n, message)
      ELSE RebuiltOther(message)

\* what the loop body pushes for realConversation[i]: no or one message
Rebuilt(deconstructed, strategy, moved, i) ==
  LET message == deconstructed.realConversation[i] IN
  IF message.role = "tool" THEN RebuiltTool(deconstructed, moved, message)
  ELSE IF message.role = "assistant" /\ message.tcs # "absent"
    THEN RebuiltAssistant(moved, message)
  ELSE IF message.role = "user"
    THEN RebuiltUser(strategy, i = Len(deconstructed.realConversation), message)
  ELSE RebuiltOther(message)

RECURSIVE RebuildFrom(_, _, _, _)
RebuildFrom(deconstructed, strategy, moved, i) ==
  IF i > Len(deconstructed.realConversation) THEN <<>>
  ELSE Rebuilt(deconstructed, strategy, moved, i)
       \o RebuildFrom(deconstructed, strategy, moved, i + 1)

buildNewMessagesArray(deconstructed, originalRealConversation) ==
  collapseConsecutiveAssistantMessages(
    <<SystemMsg(PromptContent(
        buildContextStuffedSystemPrompt(deconstructed.toolCallPairs,
                                        deconstructed.cannedUserContext,
                                        deconstructed.virtualFileSystem)))>>
    \o RebuildFrom(deconstructed,
                   analyzeToolCallStrategy(originalRealConversation),
                   MovedToSystemPromptToolCallIds(deconstructed), 1))

\* ----------------------------------------------------- reconfigureFinalMessages
\* threw: an exception escaped the call and there is no returned list
reconfigureFinalMessages(messages) ==
  LET deconstructed == deconstructMessages(messages) IN
  IF deconstructed.threw THEN [threw |-> TRUE, messages |-> <<>>]
  ELSE [threw |-> FALSE,
        messages |-> buildNewMessagesArray(deconstructed,
                                           deconstructed.realConversation)]


\* ------------------------------------------------------------------ the inputs
\* tool calls
ReadCall ==
  ToolCall("c1", "read_file", Args("object", "/a", <<>>, "", "absent", 0, 1))
SearchCall == ToolCall("c2", "search_file_content", NoFields("object"))
WriteCall ==
  ToolCall("c3", "write_file", Args("object", "", <<>>, "/a", "text", 0, NoLimit))
EmptyIdCall == ToolCall("", "run_shell_command", NoFields("object"))
NullArgsCall == ToolCall("c4", "replace", NoFields("null"))
EmptyPathCall ==
  ToolCall("c4", "read_many_files", Args("object", "", <<"">>, "", "absent", 0, NoLimit))

\* a search result with one more hit line than the truncator keeps
ManyHits ==
  [i \in 1..(MaxResults + 2) |->
     IF i = 1 THEN SearchLine(FALSE, 1, 5) ELSE SearchLine(TRUE, i, 5)]

SysText == TextContent(<<"You are an agent.">>)
CannedContext ==
  UserMsg(<<"Today's date is ", "Monday", NL,
            "My operating system is: ", "linux", NL,
            "I'm currently working in the directory: ", "/work">>)
CannedAck == AssistantMsg(<<"Got it.">>)

MessagePool ==
  { UserMsg(<<"hello">>),
    UserMsg(<<"Please continue.", WS>>),
    Message("user", NonStringContent, "absent", <<>>, ""),
    SystemMsg(SysText),
    AssistantMsg(<<"thinking">>),
    Message("assistant", TextContent(<<WS>>), "null", <<>>, ""),
    AssistantCalls(<<"thinking", WS>>, <<ReadCall, SearchCall>>),
    AssistantCalls(<<>>, <<WriteCall>>),
    AssistantCalls(<<>>, <<EmptyIdCall, NullArgsCall>>),
    AssistantCalls(<<>>, <<EmptyPathCall>>),
    ToolMsg("c1", TextContent(<<"one">>)),
    ToolMsg("c1", NonStringContent),
    ToolMsg("c2", JsonContent(ManyHits, FALSE)),
    ToolMsg("c2", LinesContent(ManyHits)),
    ToolMsg("c3", TextContent(<<"written">>)),
    ToolMsg("c4", TextContent(<<"done">>)),
    ToolMsg("", TextContent(<<"lost">>)) }

\* the three messages in front of the real conversation: the canned triple,
\* a triple whose assistant slot owns tool calls, a triple of other roles
Preambles ==
  { <<SystemMsg(SysText), CannedContext, CannedAck>>,
    <<SystemMsg(SysText), CannedContext,
      AssistantCalls(<<"Got it.">>, <<ReadCall, SearchCall, WriteCall>>)>>,
    <<UserMsg(<<"hello">>), ToolMsg("c3", CannedContext.content),
      SystemMsg(SysText)>> }

SeqsUpTo(S, n) == UNION {[1..k -> S] : k \in 0..n}

Inputs ==
  SeqsUpTo(MessagePool, PreambleLen - 1)
  \cup {p \o c : p \in Preambles, c \in SeqsUpTo(MessagePool, MaxConv)}

\* /a is a file of two lines, each ended by a newline, that has been
\* rewritten since the conversation read it; or it cannot be read
Disks ==
  { [p \in {"/a"} |-> [ok |-> TRUE, data |-> <<"uno", NL, "dos", NL>>]],
    [p \in {"/a"} |-> [ok |-> FALSE, data |-> <<>>]] }

\* ------------------------------------------------------------ the state machine
Init ==
  /\ finalMessages \in Inputs
  /\ disk \in Disks
  /\ pc = "start"
  /\ newMessages = <<>>
  /\ newMessages2 = <<>>
  /\ logWritten = "none"

\* mutant of Reconfigure: the rebuilt list is written into the argument
Reconfigure_InPlace ==
  /\ pc = "start"
  /\ LET r == reconfigureFinalMessages(finalMessages) IN
       IF r.threw
         THEN pc' = "thrown" /\ UNCHANGED <<finalMessages, newMessages, logWritten>>
         ELSE /\ pc' = "returned"
              /\ newMessages' = r.messages
              /\ finalMessages' = r.messages
              /\ logWritten' = "attempted"
  /\ UNCHANGED <<disk, newMessages2>>

\* one call of reconfigureFinalMessages(finalMessages); the write of the log
\* entry at its end may fail, which is caught inside logPromptAnalysis and
\* has no effect on what is returned
Reconfigure ==
  /\ pc = "start"
  /\ LET r == reconfigureFinalMessages(finalMessages) IN
       IF r.threw
         THEN pc' = "thrown" /\ UNCHANGED <<newMessages, logWritten>>
         ELSE /\ pc' = "returned"
              /\ newMessages' = r.messages
              /\ logWritten' = "attempted"
  /\ UNCHANGED <<finalMessages, disk, newMessages2>>

\* the caller hands the returned list to reconfigureFinalMessages again
ReconfigureAgain ==
  /\ pc = "returned"
  /\ LET r == reconfigureFinalMessages(newMessages) IN
       IF r.threw
         THEN pc' = "thrown2" /\ UNCHANGED <<newMessages2, logWritten>>
         ELSE /\ pc' = "returned2"
              /\ newMessages2' = r.messages
              /\ logWritten' = "attempted"
  /\ UNCHANGED <<finalMessages, disk, newMessages>>

Next == Reconfigure \/ ReconfigureAgain

Spec == Init /\ [][Next]_vars

\* ------------------------------------------------ readFileRange on its inputs
\* the text of line n of the files below
LineNames == <<"uno", "dos", "tres", "cuatro", "cinco">>

\* a file of k lines; every line is ended by a newline when terminated,
\* every line but the last otherwise
RECURSIVE FileOfLines(_, _)
FileOfLines(k, terminated) ==
  IF k = 0 THEN <<>>
  ELSE FileOfLines(k - 1, TRUE) \o <<LineNames[k]>>
       \o (IF terminated THEN <<NL>> ELSE <<>>)

ReadDisks ==
  {[p \in {"/a"} |-> [ok |-> TRUE, data |-> FileOfLines(k, t)]] :
     k \in 0..MaxLines, t \in BOOLEAN}
  \cup {[p \in {"/a"} |-> [ok |-> FALSE, data |-> <<>>]]}

\* the calls that make buildVirtualFileSystem read /a: read_file with every
\* offset and every limit, given or not, write_file and replace (read in full)
ReadCalls ==
  {ToolCall("c1", "read_file", Args("object", "/a", <<>>, "", "absent", o, l)) :
     o \in 0..MaxLines, l \in {NoLimit} \cup 0..MaxLines}
  \cup {ToolCall("c1", "write_file", Args("object", "", <<>>, "/a", "text", 0, NoLimit)),
        ToolCall("c1", "replace", Args("object", "", <<>>, "/a", "absent", 0, NoLimit))}

\* one answered call on /a behind the canned preamble, followed by a user turn
ReadInputs ==
  {<<SystemMsg(SysText), CannedContext, CannedAck,
     AssistantCalls(<<>>, <<c>>), ToolMsg("c1", TextContent(<<"one">>)),
     UserMsg(<<"hello">>)>> : c \in ReadCalls}

InitRead ==
  /\ finalMessages \in ReadInputs
  /\ disk \in ReadDisks
  /\ pc = "start"
  /\ newMessages = <<>>
  /\ newMessages2 = <<>>
  /\ logWritten = "none"

SpecRead == InitRead /\ [][Next]_vars

\* ------------------------------- extractFileOperationFromToolCall on its inputs
\* write_file and replace calls: with and without an id; arguments that do
\* not parse, that parse to null or to a scalar, and objects with every
\* file_path (absent or '', not a string, a path) and every content
\* (absent, the empty string, a text)
WriteCalls ==
  {ToolCall(id, name, args) :
     id \in {"", "c1"}, name \in {"write_file", "replace"},
     args \in {NoFields(j) : j \in {"invalid", "null", "scalar"}}
              \cup {Args("object", "", <<>>, fp, content, 0, NoLimit) :
                      fp \in {"", NotAString, "/a"},
                      content \in {"absent", "empty", "text"}}}

\* one answered call behind the canned preamble, followed by a user turn
WriteInputs ==
  {<<SystemMsg(SysText), CannedContext, CannedAck,
     AssistantCalls(<<>>, <<c>>), ToolMsg(c.id, TextContent(<<"written">>)),
     UserMsg(<<"hello">>)>> : c \in WriteCalls}

InitWrite ==
  /\ finalMessages \in WriteInputs
  /\ disk \in Disks
  /\ pc = "start"
  /\ newMessages = <<>>
  /\ newMessages2 = <<>>
  /\ logWritten = "none"

SpecWrite == InitWrite /\ [][Next]_vars

\* --------------------------------------------- buildVirtualFileSystem on its inputs
\* the arguments of a file operation on /a: read_file with an offset and a
\* limit (absent, 0 or more), write_file, replace
OpArgs ==
  {[name |-> "read_file",
    args |-> Args("object", "/a", <<>>, "", "absent", o, l)] :
     o \in 0..2, l \in {NoLimit, 0, 1, 2}}
  \cup {[name |-> "write_file",
         args |-> Args("object", "", <<>>, "/a", "text", 0, NoLimit)],
        [name |-> "replace",
         args |-> Args("object", "", <<>>, "/a", "absent", 0, NoLimit)]}

OpIds == <<"c1", "c2", "c3", "c4">>

\* one assistant message that calls the operations, their results in the
\* same order, and a user turn
OpInputs ==
  {<<SystemMsg(SysText), CannedContext, CannedAck,
     AssistantCalls(<<>>, [k \in 1..Len(ops) |->
                            ToolCall(OpIds[k], ops[k].name, ops[k].args)])>>
   \o [k \in 1..Len(ops) |-> ToolMsg(OpIds[k], TextContent(<<"one">>))]
   \o <<UserMsg(<<"hello">>)>> : ops \in SeqsUpTo(OpArgs, MaxOps)}

InitVfs ==
  /\ finalMessages \in OpInputs
  /\ disk \in ReadDisks
  /\ pc = "start"
  /\ newMessages = <<>>
  /\ newMessages2 = <<>>
  /\ logWritten = "none"

SpecVfs == InitVfs /\ [][Next]_vars

\* ------------------------------------------------ truncateSearchResult on its inputs
\* the output of a search: a header, then n hit lines; hit i is longer than
\* the line limit when i is in long, and a line that is no hit follows hit i
\* when i is in seps
RECURSIVE HitsFrom(_, _, _, _)
HitsFrom(i, n, seps, long) ==
  IF i > n THEN <<>>
  ELSE <<SearchLine(TRUE, i, IF i \in long THEN MaxLineChars + 1 ELSE 5)>>
       \o (IF i \in seps THEN <<SearchLine(FALSE, i, 0)>> ELSE <<>>)
       \o HitsFrom(i + 1, n, seps, long)

SearchOutput(n, seps, long) ==
  <<SearchLine(FALSE, 0, 5)>> \o HitsFrom(1, n, seps, long)

SearchOutputs ==
  {SearchOutput(n, seps, long) :
     n \in {0, 1} \cup (MaxResults - 1)..(MaxResults + MaxExtra),
     seps \in SUBSET {1, MaxResults, MaxResults + 1},
     long \in {{}, {1, MaxResults + 1}}}

\* the result strings: JSON with that output, as JSON.stringify writes it or
\* not; the output as it is, not wrapped in JSON; JSON without output
SearchResults ==
  {JsonContent(out, canon) : out \in SearchOutputs, canon \in BOOLEAN}
  \cup {LinesContent(out) : out \in SearchOutputs}
  \cup {JsonOtherContent}

\* one answered call with that result, last in the conversation (kept) or
\* followed by a user turn (moved)
SearchInputs ==
  {<<SystemMsg(SysText), CannedContext, CannedAck,
     AssistantCalls(<<>>, <<ToolCall("c2", name, NoFields("object"))>>),
     ToolMsg("c2", r)>> \o tail :
     name \in {"search_file_content", "run_shell_command"},
     r \in SearchResults,
     tail \in {<<>>, <<UserMsg(<<"hello">>)>>}}

InitSearch ==
  /\ finalMessages \in SearchInputs
  /\ disk \in {d \in Disks : d["/a"].ok}
  /\ pc = "start"
  /\ newMessages = <<>>
  /\ newMessages2 = <<>>
  /\ logWritten = "none"

SpecSearch == InitSearch /\ [][Next]_vars

\* --------------------------------- generateVirtualFileSystemContext on its inputs
\* two paths, each a file of two lines or unreadable
FileDisks ==
  [{"/a", "/b"} -> {[ok |-> TRUE, data |-> FileOfLines(2, TRUE)],
                    [ok |-> FALSE, data |-> <<>>]}]

\* reads from the start or from behind the end of the file, and writes
FileOpArgs ==
  {[name |-> "read_file",
    args |-> Args("object", p, <<>>, "", "absent", o, NoLimit)] :
     p \in {"/a", "/b"}, o \in {0, MaxLines + 2}}
  \cup {[name |-> "write_file",
         args |-> Args("object", "", <<>>, p, "text", 0, NoLimit)] :
          p \in {"/a", "/b"}}

FileInputs ==
  {<<SystemMsg(SysText), CannedContext, CannedAck,
     AssistantCalls(<<>>, [k \in 1..Len(ops) |->
                            ToolCall(OpIds[k], ops[k].name, ops[k].args)])>>
   \o [k \in 1..Len(ops) |-> ToolMsg(OpIds[k], TextContent(<<"one">>))]
   \o <<UserMsg(<<"hello">>)>> : ops \in SeqsUpTo(FileOpArgs, MaxOps)}

InitFiles ==
  /\ finalMessages \in FileInputs
  /\ disk \in FileDisks
  /\ pc = "start"
  /\ newMessages = <<>>
  /\ newMessages2 = <<>>
  /\ logWritten = "none"

SpecFiles == InitFiles /\ [][Next]_vars

\* ------------------------------------------ two calls with the same argument
TwiceInputs ==
  SeqsUpTo(MessagePool, PreambleLen - 1)
  \cup {p \o c : p \in Preambles, c \in SeqsUpTo(MessagePool, MaxSame)}

InitTwice ==
  /\ finalMessages \in TwiceInputs
  /\ disk \in Disks
  /\ pc = "start"
  /\ newMessages = <<>>
  /\ newMessages2 = <<>>
  /\ logWritten = "none"

\* between two calls another process rewrites or removes the file that
\* readFileRange reads
RewriteFile ==
  /\ pc = "returned"
  /\ disk' \in Disks \ {disk}
  /\ pc' = "rewritten"
  /\ UNCHANGED <<finalMessages, newMessages, newMessages2, logWritten>>

\* the caller hands the same list to reconfigureFinalMessages a second time
ReconfigureSame ==
  /\ pc \in {"returned", "rewritten"}
  /\ LET r == reconfigureFinalMessages(finalMessages) IN
       IF r.threw
         THEN pc' = "thrown2" /\ UNCHANGED <<newMessages2, logWritten>>
         ELSE /\ pc' = IF pc = "returned" THEN "returnedSame"
                       ELSE "returnedChanged"
              /\ newMessages2' = r.messages
              /\ logWritten' = "attempted"
  /\ UNCHANGED <<finalMessages, disk, newMessages>>

NextTwice == Reconfigure \/ RewriteFile \/ ReconfigureSame

SpecTwice == InitTwice /\ [][NextTwice]_vars

\* ----------------------------- collapseConsecutiveAssistantMessages on its inputs
\* assistant messages with equal text after trim, with blank text, with
\* content that is not a string, with calls that are moved, kept or without
\* id, and the tool results that answer them
RunPool ==
  { UserMsg(<<"hello">>),
    AssistantMsg(<<"thinking">>),
    AssistantMsg(<<WS, "thinking", WS>>),
    Message("assistant", TextContent(<<WS>>), "null", <<>>, ""),
    Message("assistant", NonStringContent, "list", <<SearchCall>>, ""),
    AssistantCalls(<<"thinking">>, <<ReadCall>>),
    AssistantCalls(<<>>, <<SearchCall>>),
    AssistantCalls(<<"other">>, <<EmptyIdCall, SearchCall>>),
    ToolMsg("c1", TextContent(<<"one">>)),
    ToolMsg("c2", TextContent(<<"found">>)) }

RunInputs ==
  {<<SystemMsg(SysText), CannedContext, CannedAck>> \o c :
     c \in SeqsUpTo(RunPool, MaxRun)}

InitRuns ==
  /\ finalMessages \in RunInputs
  /\ disk \in {d \in Disks : d["/a"].ok}
  /\ pc = "start"
  /\ newMessages = <<>>
  /\ newMessages2 = <<>>
  /\ logWritten = "none"

SpecRuns == InitRuns /\ [][Next]_vars


\* ------------------------------------------------------------------ properties
\* the first call has returned a list (newMessages)
Returned == pc = "returned"

\* the ids on the tool-call list of a message
CallIdsOf(m) ==
  IF HasToolCalls(m) THEN {m.tool_calls[k].id : k \in 1..Len(m.tool_calls)} ELSE {}

\* the real conversation of an input, as section 4.4 of the specification has it
RealOf(messages) ==
  IF Len(messages) < 3 THEN messages ELSE SubSeq(messages, 4, Len(messages))

\* I1 on a list: every tool message answers a call of an earlier assistant message
ToolLinked(messages) ==
  \A i \in 1..Len(messages) :
    messages[i].role = "tool" =>
      \E j \in 1..(i - 1) : messages[i].tool_call_id \in CallIdsOf(messages[j])

\* C1: if every tool message of the input has a non-empty tool_call_id that is
\* the id of a call on an earlier assistant message of the input, then every
\* tool message of the returned list answers a call of an assistant message
\* that precedes it in the returned list.
C1_ToolLinkage ==
  ( /\ Returned
    /\ ToolLinked(finalMessages)
    /\ \A i \in 1..Len(finalMessages) :
         finalMessages[i].role = "tool" => finalMessages[i].tool_call_id # "" )
  => ToolLinked(newMessages)


\* precondition of C2: every call of every assistant message has a non-empty id
\* and a later tool message with string content answers it
CallsAnswered(messages) ==
  \A i \in 1..Len(messages) :
    HasToolCalls(messages[i]) =>
      \A k \in 1..Len(messages[i].tool_calls) :
        /\ messages[i].tool_calls[k].id # ""
        /\ \E j \in (i + 1)..Len(messages) :
             /\ messages[j].role = "tool"
             /\ messages[j].tool_call_id = messages[i].tool_calls[k].id
             /\ IsString(messages[j].content)

HasResultFor(messages, id) ==
  \E j \in 1..Len(messages) :
    messages[j].role = "tool" /\ messages[j].tool_call_id = id

OnSomeAssistant(messages, id) ==
  \E j \in 1..Len(messages) : id \in CallIdsOf(messages[j])

\* C2: when every call of the input has a non-empty id and is answered by a
\* later tool message with string content, every call left on an assistant
\* message of the returned list has its tool message in the returned list, and
\* a call of the real conversation that is on no returned assistant message
\* has no tool message in the returned list either.
C2_NoWidowedCalls ==
  (Returned /\ CallsAnswered(finalMessages)) =>
    /\ \A i \in 1..Len(newMessages) :
         \A id \in CallIdsOf(newMessages[i]) : HasResultFor(newMessages, id)
    /\ \A i \in 1..Len(RealOf(finalMessages)) :
         \A id \in CallIdsOf(RealOf(finalMessages)[i]) :
           ~OnSomeAssistant(newMessages, id) => ~HasResultFor(newMessages, id)

\* C2 witness: a returned list whose assistant message still carries a call
\* together with its result, from an input in which every call is answered
C2_Witness ==
  /\ Returned
  /\ CallsAnswered(finalMessages)
  /\ \E i \in 1..Len(newMessages) :
       \E id \in CallIdsOf(newMessages[i]) : HasResultFor(newMessages, id)

\* C3: the returned list holds exactly one system message, at index 0; this
\* is so for the list returned by the second call as well.
C3_SingleSystem ==
  /\ Returned =>
       /\ Len(newMessages) >= 1
       /\ newMessages[1].role = "system"
       /\ \A i \in 2..Len(newMessages) : newMessages[i].role # "system"
  /\ pc = "returned2" =>
       /\ Len(newMessages2) >= 1
       /\ newMessages2[1].role = "system"
       /\ \A i \in 2..Len(newMessages2) : newMessages2[i].role # "system"

\* C3 witness: the input has system messages at several positions, one of them
\* inside the real conversation, and other messages are returned
C3_Witness ==
  /\ Returned
  /\ Len(newMessages) >= 2
  /\ Cardinality({i \in 1..Len(finalMessages) :
                    finalMessages[i].role = "system"}) >= 2
  /\ \E i \in 1..Len(RealOf(finalMessages)) :
       RealOf(finalMessages)[i].role = "system"


\* the messages of a list that are not system messages, in order
NonSystem(messages) ==
  SelectIdx(messages, [i \in 1..Len(messages) |-> messages[i].role # "system"], 1)

IsPleaseContinueUser(m) ==
  m.role = "user" /\ m.content.kind = "text" /\ Trim(m.content.toks) = PleaseContinueText

\* C4 as stated: the call on the returned list returns the same non-system
\* messages as the first call.
C4_Idempotent ==
  pc = "returned2" => NonSystem(newMessages2) = NonSystem(newMessages)

\* C4 amended: the second call takes the messages at indices 1 and 2 of the
\* first returned list for the canned preamble.  Its non-system messages equal
\* those of the first call when the first returned list has fewer than three
\* messages and no "Please continue." message; when it has three or more, the
\* second returned list is at least two messages shorter.
C4_IdempotentShort ==
  pc = "returned2" =>
    /\ ( /\ Len(newMessages) < 3
         /\ \A i \in 1..Len(newMessages) : ~IsPleaseContinueUser(newMessages[i]) )
       => NonSystem(newMessages2) = NonSystem(newMessages)
    /\ Len(newMessages) >= 3 => Len(newMessages2) <= Len(newMessages) - 2

\* C4 witness: a returned list of the system message and one tool message,
\* returned again by the second call
C4_Witness ==
  /\ pc = "returned2"
  /\ Len(newMessages) = 2
  /\ newMessages[2].role = "tool"
  /\ Len(newMessages2) = 2


\* o is the tool message t as the rebuild emits it: same id, and the content
\* of t, possibly rewritten by the search-result truncator
SameToolMessage(o, t) ==
  /\ o.role = "tool"
  /\ o.tool_call_id = t.tool_call_id
  /\ \/ o.content = t.content
     \/ o.content = truncateSearchResult("search_file_content", t.content)

\* C5 as stated: for every input that ends with a tool message the returned
\* list ends with that tool message, optionally followed by a user
\* "Please continue.", and an assistant message that carries its tool_call_id
\* appears earlier in the returned list.
C5_EndsWithTool ==
  LET n == Len(finalMessages)
      m == Len(newMessages)
  IN  (Returned /\ n >= 1 /\ finalMessages[n].role = "tool") =>
        \E e \in {m - 1, m} :
          /\ e >= 1
          /\ SameToolMessage(newMessages[e], finalMessages[n])
          /\ e = m \/ IsPleaseContinueUser(newMessages[m])
          /\ \E j \in 1..(e - 1) :
               finalMessages[n].tool_call_id \in CallIdsOf(newMessages[j])

\* C5 amended: if the input ends with a tool message that lies in the real
\* conversation (the input does not have exactly three messages) and has a
\* non-empty tool_call_id, the returned list ends with that tool message; an
\* assistant message that carries its tool_call_id appears earlier in the
\* returned list exactly when an assistant message of the real conversation
\* carries it.
C5_EndsWithRealTool ==
  LET n == Len(finalMessages)
      m == Len(newMessages)
      real == RealOf(finalMessages)
  IN  ( /\ Returned
        /\ n >= 1
        /\ n # 3
        /\ finalMessages[n].role = "tool"
        /\ finalMessages[n].tool_call_id # "" ) =>
        /\ m >= 2
        /\ SameToolMessage(newMessages[m], finalMessages[n])
        /\ (\E j \in 1..(m - 1) :
              finalMessages[n].tool_call_id \in CallIdsOf(newMessages[j]))
           <=> OnSomeAssistant(real, finalMessages[n].tool_call_id)

\* C5 witness: an input of preamble and conversation that ends with a tool
\* message whose owner is returned in front of it
C5_Witness ==
  LET n == Len(finalMessages)
      m == Len(newMessages)
  IN  /\ Returned
      /\ n > 3
      /\ finalMessages[n].role = "tool"
      /\ finalMessages[n].tool_call_id # ""
      /\ m >= 3
      /\ SameToolMessage(newMessages[m], finalMessages[n])
      /\ \E j \in 1..(m - 1) :
           finalMessages[n].tool_call_id \in CallIdsOf(newMessages[j])


\* the blocks of the system message of a returned list
PromptBlocks(messages) == messages[1].content.out

\* how many section headings of the Current File States block name path p
HeadingCount(messages, p) ==
  Cardinality({i \in 1..Len(PromptBlocks(messages)) :
                 /\ PromptBlocks(messages)[i].k = "file-heading"
                 /\ PromptBlocks(messages)[i].name = p})

HeadingPaths(messages) ==
  {PromptBlocks(messages)[i].name :
     i \in {j \in 1..Len(PromptBlocks(messages)) :
              PromptBlocks(messages)[j].k = "file-heading"}}

IsFileOp(toolCall) ==
  extractFileOperationFromToolCall(toolCall).type \in {"read", "write", "edit"}

\* the paths targeted by the file-operation tool calls of a list
FileOpPathsOf(messages) ==
  {extractFileOperationFromToolCall(AllToolCalls(messages)[k]).filepath :
     k \in {j \in 1..Len(AllToolCalls(messages)) :
              IsFileOp(AllToolCalls(messages)[j])}}

\* the (call, result) pairs of an input that are moved out of the conversation:
\* none for an input shorter than the preamble, else the answered calls that
\* are not part of the kept last cycle
MovedPairsOf(messages) ==
  IF Len(messages) < 3 THEN <<>>
  ELSE MovablePairs(messages, analyzeToolCallStrategy(RealOf(messages)))

MovedFileOps(messages) ==
  {i \in 1..Len(MovedPairsOf(messages)) : IsFileOp(MovedPairsOf(messages)[i].toolCall)}

MovedFileOpPath(messages, i) ==
  extractFileOperationFromToolCall(MovedPairsOf(messages)[i].toolCall).filepath

\* C6 as stated: every path targeted by a file-operation tool call of the
\* input, the calls of a kept last cycle included, is exactly once a section
\* heading of the returned system message, and the headings are exactly those
\* paths.
C6_AllPathsOnce ==
  Returned =>
    /\ \A p \in FileOpPathsOf(finalMessages) : HeadingCount(newMessages, p) = 1
    /\ HeadingPaths(newMessages) = FileOpPathsOf(finalMessages)

\* C6 amended: the section headings of the returned system message are exactly
\* the non-empty paths of the moved file-operation pairs (calls with a
\* non-empty id that a tool message with string content answers and that are
\* not part of the kept last cycle), each exactly once; the file operations of
\* a kept last cycle, unanswered calls and inputs shorter than three messages
\* add no heading.
C6_MovedPathsOnce ==
  Returned =>
    LET paths == {MovedFileOpPath(finalMessages, i) :
                    i \in MovedFileOps(finalMessages)} \ {""}
    IN  /\ \A p \in paths : HeadingCount(newMessages, p) = 1
        /\ HeadingPaths(newMessages) = paths

\* C6 witness: two moved file operations on the same path, one heading
C6_Witness ==
  /\ Returned
  /\ \E i, j \in MovedFileOps(finalMessages) :
       /\ i # j
       /\ MovedFileOpPath(finalMessages, i) = "/a"
       /\ MovedFileOpPath(finalMessages, j) = "/a"
  /\ HeadingCount(newMessages, "/a") = 1


\* the last tool result of a conversation: its last message when that is a
\* tool message, the one before a trailing user "Please continue." otherwise;
\* 0 when the conversation ends in neither way
LastToolIndex(real) ==
  LET n == Len(real) IN
  IF n >= 1 /\ real[n].role = "tool" THEN n
  ELSE IF n >= 2 /\ IsPleaseContinueUser(real[n]) /\ real[n - 1].role = "tool"
    THEN n - 1
  ELSE 0

\* the tool-call list of the first assistant message that carries the id
OwnerCalls(real, id) ==
  real[CHOOSE i \in 1..Len(real) :
         /\ id \in CallIdsOf(real[i])
         /\ \A j \in 1..(i - 1) : id \notin CallIdsOf(real[j])].tool_calls

\* the tool messages of a list that answer one of the ids, in order
ResultsFor(messages, ids) ==
  SelectIdx(messages,
            [i \in 1..Len(messages) |->
               messages[i].role = "tool" /\ messages[i].tool_call_id \in ids],
            1)

\* some assistant message of the list carries the calls, adjacent and in order
CarriesInOrder(messages, calls) ==
  \E j \in 1..Len(messages) :
    /\ HasToolCalls(messages[j])
    /\ \E off \in 0..(Len(messages[j].tool_calls) - Len(calls)) :
         \A k \in 1..Len(calls) : messages[j].tool_calls[off + k] = calls[k]

\* the fan-out is kept live: no call is moved, one returned assistant message
\* carries the calls in order, their results are returned in order
KeptLive(calls) ==
  LET real == RealOf(finalMessages)
      ids == {calls[k].id : k \in 1..Len(calls)}
      before == ResultsFor(real, ids)
      after == ResultsFor(newMessages, ids)
  IN  /\ \A i \in 1..Len(MovedPairsOf(finalMessages)) :
           MovedPairsOf(finalMessages)[i].toolCall.id \notin ids
      /\ CarriesInOrder(newMessages, calls)
      /\ Len(after) = Len(before)
      /\ \A i \in 1..Len(before) : SameToolMessage(after[i], before[i])

WithId(calls) ==
  SelectIdx(calls, [k \in 1..Len(calls) |-> calls[k].id # ""], 1)

EndsWithToolThenContinue(real) ==
  /\ Len(real) >= 2
  /\ IsPleaseContinueUser(real[Len(real)])
  /\ real[Len(real) - 1].role = "tool"

\* C8: a user message whose trimmed content is "Please continue." is in the
\* returned list only as its last element, and only when the real conversation
\* ends with a tool result directly followed by that message.
C8_PleaseContinueOnlyLast ==
  Returned =>
    \A i \in 1..Len(newMessages) :
      IsPleaseContinueUser(newMessages[i]) =>
        /\ i = Len(newMessages)
        /\ EndsWithToolThenContinue(RealOf(finalMessages))

\* C8 witness: the trailing prompt is returned while an earlier one of the same
\* conversation is not
C8_Witness ==
  /\ Returned
  /\ IsPleaseContinueUser(newMessages[Len(newMessages)])
  /\ Cardinality({i \in 1..Len(RealOf(finalMessages)) :
                    IsPleaseContinueUser(RealOf(finalMessages)[i])}) >= 2
  /\ Cardinality({i \in 1..Len(newMessages) :
                    IsPleaseContinueUser(newMessages[i])}) = 1

\* C9: no call of reconfigureFinalMessages throws.
C9_NeverThrows == pc \notin {"thrown", "thrown2"}

\* the block that follows the section heading of path p
AfterHeading(messages, p) ==
  LET blocks == PromptBlocks(messages)
      h == CHOOSE i \in 1..Len(blocks) :
             blocks[i].k = "file-heading" /\ blocks[i].name = p
  IN  IF h < Len(blocks) THEN blocks[h + 1].k ELSE "none"

Unreadable(p) == p \notin DOMAIN disk \/ ~disk[p].ok

\* C10: for every moved pair that classifies as a file operation on path p,
\* p is a section heading of the returned system message (followed by the
\* 'content not tracked' placeholder when p cannot be read) and no tool
\* message with the id of that call is in the returned list.
C10_MovedFileOpsInVfs ==
  Returned =>
    \A i \in MovedFileOps(finalMessages) :
      /\ MovedFileOpPath(finalMessages, i) \in HeadingPaths(newMessages)
      /\ Unreadable(MovedFileOpPath(finalMessages, i)) =>
           AfterHeading(newMessages, MovedFileOpPath(finalMessages, i)) = "not-tracked"
      /\ ~HasResultFor(newMessages, MovedPairsOf(finalMessages)[i].toolCall.id)

\* the text of line n of a file: what lies between its (n-1)-th and its n-th
\* newline (or its end)
RECURSIVE LineText(_, _)
LineText(data, n) ==
  LET nls == {i \in 1..Len(data) : data[i] = NL}
      first == IF nls = {} THEN Len(data) + 1
               ELSE CHOOSE i \in nls : \A j \in nls : i <= j
  IN  IF n <= 1 THEN SubSeq(data, 1, first - 1)
      ELSE IF nls = {} THEN <<>>
      ELSE LineText(SubSeq(data, first + 1, Len(data)), n - 1)

\* lines a..b of a file joined by newlines
RECURSIVE LinesText(_, _, _)
LinesText(data, a, b) ==
  IF a >= b THEN LineText(data, a)
  ELSE LineText(data, a) \o <<NL>> \o LinesText(data, a + 1, b)

\* the path of the section that block i of the prompt belongs to
SectionOf(blocks, i) ==
  LET hs == {h \in 1..i : blocks[h].k = "file-heading"}
  IN  blocks[CHOOSE h \in hs : \A g \in hs : g <= h].name

\* the indices of the line-range blocks of the returned system message
RangeBlocks(messages) ==
  {i \in 1..Len(PromptBlocks(messages)) : PromptBlocks(messages)[i].k = "range"}

\* C11: every line range shown under a path in the Current File States block
\* of the returned system message carries the text those lines have on disk
\* at the time of the call, never the text of a tool result or of the content
\* argument of write_file, whatever the order of the calls on that path.
C11_VfsFromDisk ==
  Returned =>
    \A i \in RangeBlocks(newMessages) :
      LET b == PromptBlocks(newMessages)[i]
          p == SectionOf(PromptBlocks(newMessages), i)
      IN  /\ p \in DOMAIN disk
          /\ disk[p].ok
          /\ b.a >= 1
          /\ b.body = LinesText(disk[p].data, b.a, b.b)

\* C11 witness: a write_file and then a read_file of the same path are moved,
\* the file no longer holds what the read returned, and the section of the
\* path shows the text on disk
C11_Witness ==
  LET pairs == MovedPairsOf(finalMessages) IN
  /\ Returned
  /\ \E i, j \in MovedFileOps(finalMessages) :
        /\ i < j
        /\ pairs[i].toolCall.name = "write_file"
        /\ pairs[j].toolCall.name = "read_file"
        /\ MovedFileOpPath(finalMessages, i) = MovedFileOpPath(finalMessages, j)
        /\ disk[MovedFileOpPath(finalMessages, j)].ok
        /\ LineText(disk[MovedFileOpPath(finalMessages, j)].data, 1)
             # StringToks(pairs[j].result)
  /\ \E i \in RangeBlocks(newMessages) :
        /\ PromptBlocks(newMessages)[i].a = 1
        /\ SubSeq(PromptBlocks(newMessages)[i].body, 1, 3) = <<"uno", NL, "dos">>

\* t is s with some elements left out
RECURSIVE IsSubseq(_, _)
IsSubseq(t, s) ==
  IF t = <<>> THEN TRUE
  ELSE IF s = <<>> THEN FALSE
  ELSE IF Head(t) = Head(s) THEN IsSubseq(Tail(t), Tail(s))
  ELSE IsSubseq(t, Tail(s))

\* the distinct trimmed non-blank contents of the messages real[i], i in idx
RECURSIVE DistinctContents(_, _, _)
DistinctContents(real, idx, acc) ==
  IF idx = <<>> THEN acc
  ELSE LET m == real[Head(idx)]
           text == Trim(StringToks(m.content))
       IN  DistinctContents(real, Tail(idx),
             IF IsString(m.content) /\ text # <<>> /\ text \notin SeqToSet(acc)
               THEN Append(acc, text) ELSE acc)

\* the returned message o is built from the messages real[i], i in S: a tool
\* or user message from that one message, an assistant message from a run of
\* assistant messages whose texts it joins and whose calls it carries
BuiltFrom(o, real, S) ==
  IF o.role = "assistant"
    THEN /\ \A i \in S : real[i].role = "assistant"
         /\ \/ o \in {real[i] : i \in S} /\ Cardinality(S) = 1
            \/ /\ o.content.kind = "text"
               /\ o.content.toks = JoinNL(DistinctContents(real, SortedSeq(S), <<>>))
         /\ IsSubseq(o.tool_calls,
                     AllToolCalls([k \in 1..Cardinality(S) |-> real[SortedSeq(S)[k]]]))
    ELSE /\ Cardinality(S) = 1
         /\ \A i \in S :
              IF o.role = "tool" THEN SameToolMessage(o, real[i]) /\ real[i].role = "tool"
              ELSE o = real[i]

\* out[k..] can be built, in this order, from disjoint groups of real[lo..]
RECURSIVE BuiltInOrder(_, _, _, _)
BuiltInOrder(out, k, real, lo) ==
  IF k > Len(out) THEN TRUE
  ELSE \E S \in IF out[k].role = "assistant"
                  THEN (SUBSET {i \in lo..Len(real) : real[i].role = "assistant"}) \ {{}}
                  ELSE {{i} : i \in {j \in lo..Len(real) : real[j].role = out[k].role}} :
         /\ BuiltFrom(out[k], real, S)
         /\ BuiltInOrder(out, k + 1, real,
                         (CHOOSE i \in S : \A j \in S : j <= i) + 1)

\* C12: the non-system messages of the returned list are built, in their
\* order, from groups of messages of the real conversation that follow one
\* another in the input order and share no message (a collapsed assistant
\* message from the run it merges, every other message from one message).
C12_OrderStable ==
  Returned =>
    BuiltInOrder(NonSystem(newMessages), 1, RealOf(finalMessages), 1)

\* C12 witness: an assistant message merged from two assistant messages of
\* the input is returned in front of a message that followed them in the input
C12_Witness ==
  LET real == RealOf(finalMessages) IN
  /\ Returned
  /\ Len(newMessages) >= 3
  /\ Len(real) >= 3
  /\ \E k \in 1..(Len(newMessages) - 1) :
        /\ newMessages[k].role = "assistant"
        /\ BuiltFrom(newMessages[k], real, {1, 2})
        /\ ~BuiltFrom(newMessages[k], real, {1})
        /\ ~BuiltFrom(newMessages[k], real, {2})
        /\ BuiltFrom(newMessages[k + 1], real, {3})

\* the number of lines matching /^L\d+:/ in a result string
HitLinesOf(content) ==
  IF content.kind \in {"json", "lines"} THEN HitCount(content.out) ELSE 0

\* the entries of search_file_content in the Previous Tool Calls block
SearchEntries(messages) ==
  {i \in 1..Len(PromptBlocks(messages)) :
     /\ PromptBlocks(messages)[i].k = "tool-call"
     /\ PromptBlocks(messages)[i].name = "search_file_content"}

\* the result embedded in entry i
EmbeddedResult(messages, i) == PromptBlocks(messages)[i].body[2]

\* C13 as stated: no search_file_content result embedded in the returned
\* system message has more than 20 lines matching /^L\d+:/, whatever the
\* result string is.
C13_AtMost20Hits ==
  Returned =>
    \A i \in SearchEntries(newMessages) :
      HitLinesOf(EmbeddedResult(newMessages, i)) <= MaxResults

\* C13 amended: the bound holds for every embedded result that decodes as
\* JSON with a string output field, and a result over the bound ends with
\* the line that counts the hits left out; a result that is not such JSON
\* is embedded as it was.
C13_AtMost20HitsInJsonOutput ==
  Returned =>
    /\ \A i \in SearchEntries(newMessages) :
         LET r == EmbeddedResult(newMessages, i) IN
         r.kind = "json" => HitLinesOf(r) <= MaxResults
    /\ \A k \in 1..Len(MovedPairsOf(finalMessages)) :
         LET pair == MovedPairsOf(finalMessages)[k] IN
         ( /\ pair.toolCall.name = "search_file_content"
           /\ pair.result.kind = "json"
           /\ HitLinesOf(pair.result) > MaxResults ) =>
           \E i \in SearchEntries(newMessages) :
             LET r == EmbeddedResult(newMessages, i) IN
             /\ r.kind = "json"
             /\ HitLinesOf(r) = MaxResults
             /\ r.out[Len(r.out)].more = HitLinesOf(pair.result) - MaxResults
    /\ \A k \in 1..Len(MovedPairsOf(finalMessages)) :
         LET pair == MovedPairsOf(finalMessages)[k] IN
         ( /\ pair.toolCall.name = "search_file_content"
           /\ pair.result.kind # "json" ) =>
           \E i \in SearchEntries(newMessages) :
             EmbeddedResult(newMessages, i) = pair.result

\* C13 witness: a JSON result of 21 hits is embedded with 20 hits and the
\* line '[... truncated 1 more results]'
C13_Witness ==
  /\ Returned
  /\ \E k \in 1..Len(MovedPairsOf(finalMessages)) :
        /\ MovedPairsOf(finalMessages)[k].toolCall.name = "search_file_content"
        /\ MovedPairsOf(finalMessages)[k].result.kind = "json"
        /\ HitLinesOf(MovedPairsOf(finalMessages)[k].result) = MaxResults + 1
  /\ \E i \in SearchEntries(newMessages) :
        LET r == EmbeddedResult(newMessages, i) IN
        /\ r.kind = "json"
        /\ HitLinesOf(r) = MaxResults
        /\ r.out[Len(r.out)] = TruncationLine(1)

\* the user messages of a list that are not the "Please continue." prompt
OtherUsers(messages) ==
  SelectIdx(messages,
            [i \in 1..Len(messages) |->
               messages[i].role = "user" /\ ~IsPleaseContinueUser(messages[i])],
            1)

\* C14: the user messages of the returned list whose trimmed content is not
\* "Please continue." are exactly those of the real conversation: each one
\* once, with unchanged content, in the order of the input.
C14_UsersPassThrough ==
  Returned => OtherUsers(newMessages) = OtherUsers(RealOf(finalMessages))

\* C14 witness: two different user messages with the prompt between them;
\* both are returned, in their order, and the prompt is not
C14_Witness ==
  LET real == RealOf(finalMessages) IN
  /\ Returned
  /\ Len(real) = 3
  /\ real[1].role = "user" /\ real[3].role = "user" /\ real[1] # real[3]
  /\ IsPleaseContinueUser(real[2])
  /\ newMessages = <<newMessages[1], real[1], real[3]>>

\* the values of the Current Environment block of the returned system message
EnvironmentOf(messages) ==
  LET blocks == PromptBlocks(messages)
  IN  blocks[CHOOSE i \in 1..Len(blocks) : blocks[i].k = "environment"].body

\* the values the block shows when the context field is the empty string
EnvironmentDefaults == <<"new Date()", "unknown", "process.cwd()">>

\* C15: for an input of three or more messages the non-system messages of
\* the returned list are built, in order, from input[3:] alone, whatever
\* stands at input indices 1 and 2; the context field is read from the
\* message at index 1 only when that message is a user message and is the
\* empty string otherwise.
C15_PreambleNeverEmitted ==
  (Returned /\ Len(finalMessages) >= 3) =>
    /\ BuiltInOrder(NonSystem(newMessages), 1,
                    SubSeq(finalMessages, 4, Len(finalMessages)), 1)
    /\ Len(finalMessages) = 3 => Len(newMessages) = 1
    /\ finalMessages[2].role # "user" =>
         EnvironmentOf(newMessages) = EnvironmentDefaults
    /\ finalMessages[2] = CannedContext =>
         EnvironmentOf(newMessages) = <<"Monday", "linux", "/work">>

\* C15 witness: the messages at indices 1 and 2 are a tool message that
\* carries the context text and a system message; neither is returned, the
\* environment block shows the defaults, and the conversation is returned
C15_Witness ==
  /\ Returned
  /\ Len(finalMessages) >= 5
  /\ finalMessages[2].role = "tool"
  /\ finalMessages[2].content = CannedContext.content
  /\ finalMessages[3].role = "system"
  /\ EnvironmentOf(newMessages) = EnvironmentDefaults
  /\ Len(newMessages) = Len(finalMessages) - 2
  /\ \A i \in 2..Len(newMessages) : newMessages[i].role \notin {"tool", "system"}

\* the tool calls of a list that have a non-empty id, in order
CallsWithId(messages) ==
  LET calls == AllToolCalls(messages) IN
  SelectIdx(calls, [k \in 1..Len(calls) |-> calls[k].id # ""], 1)

\* the tool_call_ids of the tool messages of a list, in order
ResultIds(messages) ==
  LET tools == SelectIdx(messages,
                         [i \in 1..Len(messages) |-> messages[i].role = "tool"], 1)
  IN  [i \in 1..Len(tools) |-> tools[i].tool_call_id]

\* a sequence of ids without the empty ones
NonEmptyIds(ids) == SelectIdx(ids, [i \in 1..Len(ids) |-> ids[i] # ""], 1)

\* C16: for an input of fewer than three messages nothing is moved: the
\* returned system message has only the preamble and the environment block
\* (with the default values), every tool call with a non-empty id stays on
\* an assistant message, every tool result with a non-empty tool_call_id
\* stays a tool message, and the rest of the list is built in order from the
\* whole input, an input system message being left out.
C16_ShortInputNothingMoved ==
  (Returned /\ Len(finalMessages) < 3) =>
    /\ \A i \in 1..Len(PromptBlocks(newMessages)) :
         PromptBlocks(newMessages)[i].k \in {"preamble", "environment"}
    /\ EnvironmentOf(newMessages) = EnvironmentDefaults
    /\ CallsWithId(newMessages) = CallsWithId(finalMessages)
    /\ ResultIds(newMessages) = NonEmptyIds(ResultIds(finalMessages))
    /\ BuiltInOrder(NonSystem(newMessages), 1, finalMessages, 1)
    /\ \A i \in 2..Len(newMessages) : newMessages[i].role # "system"

\* C16 witness: a two-message input whose tool result comes before the
\* assistant message with the call, a file operation; a longer input would
\* have the pair moved, here call and result are returned
C16_Witness ==
  /\ Returned
  /\ Len(finalMessages) = 2
  /\ finalMessages[1].role = "tool"
  /\ finalMessages[1].tool_call_id # ""
  /\ IsString(finalMessages[1].content)
  /\ \E k \in 1..Len(AllToolCalls(<<finalMessages[2]>>)) :
        /\ AllToolCalls(<<finalMessages[2]>>)[k].id = finalMessages[1].tool_call_id
        /\ IsFileOp(AllToolCalls(<<finalMessages[2]>>)[k])
  /\ Len(newMessages) = 3
  /\ newMessages[2] = finalMessages[1]
  /\ CallIdsOf(newMessages[3]) = CallIdsOf(finalMessages[2])

\* the real conversation ends with a tool message, or with the prompt
\* directly after a tool message
EndsInToolCycle(real) ==
  /\ Len(real) > 0
  /\ \/ real[Len(real)].role = "tool"
     \/ EndsWithToolThenContinue(real)

\* C17: analyzeToolCallStrategy returns keepLastToolSequence = true exactly
\* when the real conversation ends with a tool message or with the prompt
\* "Please continue." directly after a tool message; otherwise it returns
\* false with no ids. The call in deconstructMessages and the call in
\* buildNewMessagesArray get the same conversation and return the same
\* result, and a trailing prompt is returned exactly when the result is true.
C17_StrategyCases ==
  LET real == RealOf(finalMessages)
      strategy == analyzeToolCallStrategy(real)
  IN  /\ strategy.keepLastToolSequence = EndsInToolCycle(real)
      /\ ~EndsInToolCycle(real) => strategy.lastToolCallIds = {}
      /\ (Returned /\ Len(finalMessages) >= 3) =>
           analyzeToolCallStrategy(SliceReal(finalMessages))
             = analyzeToolCallStrategy(deconstructMessages(finalMessages).realConversation)
      /\ (Returned /\ Len(real) > 0 /\ IsPleaseContinueUser(real[Len(real)])) =>
           (IsPleaseContinueUser(newMessages[Len(newMessages)])
              <=> strategy.keepLastToolSequence)

\* C17 witness: the conversation ends with a tool result and the prompt, the
\* strategy keeps the calls of the owning assistant message, and the prompt
\* is returned last
C17_Witness ==
  LET real == RealOf(finalMessages) IN
  /\ Returned
  /\ Len(finalMessages) >= 3
  /\ EndsWithToolThenContinue(real)
  /\ analyzeToolCallStrategy(real).keepLastToolSequence
  /\ Cardinality(analyzeToolCallStrategy(real).lastToolCallIds) >= 2
  /\ IsPleaseContinueUser(newMessages[Len(newMessages)])

\* moved_ids of an input: the ids of the pairs taken out of the conversation
MovedIdsOf(messages) ==
  {MovedPairsOf(messages)[k].toolCall.id : k \in 1..Len(MovedPairsOf(messages))}

\* the tool messages of a list whose tool_call_id satisfies keep
ToolIdsWhere(messages, keep(_)) ==
  LET ids == ResultIds(messages) IN
  SelectIdx(ids, [i \in 1..Len(ids) |-> keep(ids[i])], 1)

\* the call that the pairing pass finds for a tool_call_id is shown in the
\* returned system message: as the section of its path when it is a file
\* operation, as an entry of the Previous Tool Calls block otherwise
Represented(id) ==
  LET call == ToolCallMapGet(finalMessages, id) IN
  IF IsFileOp(call)
    THEN extractFileOperationFromToolCall(call).filepath \in HeadingPaths(newMessages)
    ELSE \E i \in 1..Len(PromptBlocks(newMessages)) :
           /\ PromptBlocks(newMessages)[i].k = "tool-call"
           /\ PromptBlocks(newMessages)[i].name = call.name
           /\ PromptBlocks(newMessages)[i].body[1] = call.arguments

\* C18 as stated: the tool messages returned are those of the real
\* conversation whose tool_call_id is not in moved_ids, and every tool
\* message of the real conversation that is not returned, one with an empty
\* tool_call_id included, is shown in the system message.
C18_ToolEmittedIffNotMoved ==
  LET real == RealOf(finalMessages)
      moved == MovedIdsOf(finalMessages)
      NotMoved(id) == id \notin moved
  IN  Returned =>
        /\ ResultIds(newMessages) = ToolIdsWhere(real, NotMoved)
        /\ \A i \in 1..Len(real) :
             (real[i].role = "tool" /\ ~NotMoved(real[i].tool_call_id)) =>
               Represented(real[i].tool_call_id)

\* the number of newline-terminated lines of a text that consists of such
\* lines only: -1 when the text ends in an unterminated line
TerminatedLines(data) ==
  IF data # <<>> /\ data[Len(data)] # NL THEN -1
  ELSE Cardinality({i \in 1..Len(data) : data[i] = NL})

\* the line numbers shown under path p in the returned system message
ShownLines(messages, p) ==
  UNION {PromptBlocks(messages)[i].a..PromptBlocks(messages)[i].b :
           i \in {j \in RangeBlocks(messages) :
                    SectionOf(PromptBlocks(messages), j) = p}}

\* C19: a terminal newline creates no trailing empty entry: when a readable
\* file of k >= 1 lines, each ended by a newline, is read in full (write_file,
\* replace, or read_file without offset and limit), the lines tracked for it
\* are exactly 1..k; lines are numbered from 1, and a read at offset o of a
\* file with more than o lines starts at line o + 1.
C19_NoTrailingEntry ==
  Returned =>
    \A i \in MovedFileOps(finalMessages) :
      LET call == MovedPairsOf(finalMessages)[i].toolCall
          p == MovedFileOpPath(finalMessages, i)
          k == TerminatedLines(disk[p].data)
          o == IF call.name = "read_file" THEN call.arguments.offset ELSE 0
          l == IF call.name = "read_file" THEN call.arguments.limit ELSE NoLimit
      IN  disk[p].ok =>
            /\ \A n \in ShownLines(newMessages, p) : n >= o + 1
            /\ (k > o) => (o + 1) \in ShownLines(newMessages, p)
            /\ (k >= 1 /\ o = 0 /\ l = NoLimit) => ShownLines(newMessages, p) = 1..k

\* the call is an entry of the Previous Tool Calls block of the returned
\* system message
ListedCall(call) ==
  \E i \in 1..Len(PromptBlocks(newMessages)) :
    /\ PromptBlocks(newMessages)[i].k = "tool-call"
    /\ PromptBlocks(newMessages)[i].name = call.name
    /\ PromptBlocks(newMessages)[i].body[1] = call.arguments

\* C20: a write_file call with a non-empty id whose arguments decode to an
\* object with a string file_path and a content field, whatever its value
\* (the empty string included), classifies as the write operation on that
\* path, and a write_file call lacking either classifies as nothing; a moved
\* call that classifies as a file operation has its path as a section of
\* Current File States and is no entry of Previous Tool Calls.
C20_WriteFileClassified ==
  Returned =>
    \A k \in 1..Len(AllToolCalls(finalMessages)) :
      LET call == AllToolCalls(finalMessages)[k]
          args == call.arguments
          operation == extractFileOperationFromToolCall(call)
          complete == args.file_path \notin {"", NotAString}
                        /\ args.content # "absent"
      IN  (call.name = "write_file" /\ call.id # "" /\ args.json = "object") =>
            /\ operation = IF complete
                             THEN FileOp("write", args.file_path, call.id)
                             ELSE NullOp
            /\ (call.id \in MovedIdsOf(finalMessages)) =>
                  /\ complete <=> args.file_path \in HeadingPaths(newMessages)
                  /\ complete <=> ~ListedCall(call)

\* the message real[i] stays in the conversation as a message that is not an
\* assistant message: a tool message with an id that was not moved, a user
\* message other than a dropped "Please continue.", any role but system
Separates(real, moved, keep, i) ==
  IF real[i].role = "tool"
    THEN real[i].tool_call_id # "" /\ real[i].tool_call_id \notin moved
  ELSE IF real[i].role = "user"
    THEN ~IsPleaseContinueUser(real[i]) \/ (i = Len(real) /\ keep)
  ELSE real[i].role \notin {"assistant", "system"}

\* the assistant messages of real[i..] up to the next message that separates
RECURSIVE RunFrom(_, _, _, _)
RunFrom(real, moved, keep, i) ==
  IF i > Len(real) \/ Separates(real, moved, keep, i) THEN <<>>
  ELSE (IF real[i].role = "assistant" THEN <<i>> ELSE <<>>)
       \o RunFrom(real, moved, keep, i + 1)

\* the index of the next message of real[i..] that separates, or Len(real) + 1
RECURSIVE NextSeparator(_, _, _, _)
NextSeparator(real, moved, keep, i) ==
  IF i > Len(real) \/ Separates(real, moved, keep, i) THEN i
  ELSE NextSeparator(real, moved, keep, i + 1)

\* the calls of the messages real[i], i in run, that stay: in order, every
\* occurrence
RECURSIVE RunCalls(_, _, _)
RunCalls(real, moved, run) ==
  IF run = <<>> THEN <<>>
  ELSE LET m == real[Head(run)]
           calls == IF HasToolCalls(m) THEN m.tool_calls ELSE <<>>
       IN  SelectIdx(calls, [k \in 1..Len(calls) |->
                               calls[k].id # "" /\ calls[k].id \notin moved], 1)
           \o RunCalls(real, moved, Tail(run))

\* the folds of the maximal runs of real[i..]: (text, calls) of every run
\* that has a text or a call
RECURSIVE Folds(_, _, _, _)
Folds(real, moved, keep, i) ==
  IF i > Len(real) THEN <<>>
  ELSE LET run == RunFrom(real, moved, keep, i)
           text == JoinNL(DistinctContents(real, run, <<>>))
           calls == RunCalls(real, moved, run)
       IN  (IF DistinctContents(real, run, <<>>) # <<>> \/ calls # <<>>
              THEN <<[text |-> text, calls |-> calls]>> ELSE <<>>)
           \o Folds(real, moved, keep, NextSeparator(real, moved, keep, i) + 1)

\* the assistant messages of a list as (text, calls)
AssistantsOf(messages) ==
  LET idx == SelectIdx([i \in 1..Len(messages) |-> i],
                       [i \in 1..Len(messages) |-> messages[i].role = "assistant"], 1)
  IN  [k \in 1..Len(idx) |->
         [text |-> messages[idx[k]].content.toks,
          calls |-> messages[idx[k]].tool_calls]]

\* C21: the returned list has no two adjacent assistant messages, and its
\* assistant messages are, in order, the folds of the maximal runs of
\* assistant messages that remain next to each other once moved tool results
\* and emptied assistant messages are gone: the text of a fold is the run's
\* distinct non-empty trimmed texts in first-occurrence order joined by a
\* newline, its tool-call list the run's remaining calls in order with every
\* repetition.
C21_RunsFolded ==
  LET real == RealOf(finalMessages)
      moved == MovedIdsOf(finalMessages)
      keep == analyzeToolCallStrategy(real).keepLastToolSequence
  IN  Returned =>
        /\ \A k \in 1..(Len(newMessages) - 1) :
             ~(newMessages[k].role = "assistant"
               /\ newMessages[k + 1].role = "assistant")
        /\ \A k \in 1..Len(newMessages) :
             newMessages[k].role = "assistant" => newMessages[k].content.kind = "text"
        /\ AssistantsOf(newMessages) = Folds(real, moved, keep, 1)

\* C21 witness: two assistant messages that only a moved tool result
\* separates in the input are returned as one message that joins their two
\* texts; and a returned assistant message carries the same call twice
C21_Witness ==
  LET real == RealOf(finalMessages)
      moved == MovedIdsOf(finalMessages)
  IN  /\ Returned
      /\ Len(real) >= 3
      /\ real[1].role = "assistant" /\ real[3].role = "assistant"
      /\ real[2].role = "tool" /\ real[2].tool_call_id \in moved
      /\ \E k \in 1..Len(newMessages) :
            /\ newMessages[k].role = "assistant"
            /\ newMessages[k].content.toks = <<"thinking", NL, "other">>
            /\ Len(newMessages[k].tool_calls) >= 2
            /\ newMessages[k].tool_calls[1] = newMessages[k].tool_calls[2]

\* the tool calls on the assistant messages of a list that satisfy keep, in
\* order
CallsWhere(messages, keep(_)) ==
  LET calls == AllToolCalls(messages) IN
  SelectIdx(calls, [k \in 1..Len(calls) |-> keep(calls[k])], 1)

\* the trimmed non-blank string contents of the assistant messages of a list
AssistantTexts(messages) ==
  {Trim(StringToks(messages[i].content)) :
     i \in {j \in 1..Len(messages) :
              messages[j].role = "assistant" /\ HasContent(messages[j])}}

\* the newline-separated pieces of the contents of the returned assistant
\* messages
ReturnedTexts ==
  UNION {SeqToSet(SplitNL(newMessages[i].content.toks)) :
           i \in {j \in 1..Len(newMessages) :
                    newMessages[j].role = "assistant"}} \ {<<>>}

\* no returned assistant message is empty, one without calls has no
\* tool-call list, and the texts returned are the non-blank texts of the input
NoEmptyAssistant ==
  /\ \A k \in 1..Len(newMessages) :
       newMessages[k].role = "assistant" =>
         /\ HasContent(newMessages[k]) \/ newMessages[k].tool_calls # <<>>
         /\ newMessages[k].tool_calls = <<>> => newMessages[k].tcs = "absent"
  /\ ReturnedTexts = AssistantTexts(RealOf(finalMessages))

FileLength(p) == Len(SplitNL(disk[p].data))

\* the moved file operations on path p, in input order
MovedOpsOn(p) ==
  LET pairs == MovedPairsOf(finalMessages)
      idx == SelectIdx([i \in 1..Len(pairs) |-> i],
                       [i \in 1..Len(pairs) |->
                          /\ IsFileOp(pairs[i].toolCall)
                          /\ MovedFileOpPath(finalMessages, i) = p], 1)
  IN  [k \in 1..Len(idx) |-> pairs[idx[k]].toolCall]

\* the lines that the moved reads of p ask for, where limited(l) says which
\* limits bound the range
ReadUnion(p, limited(_)) ==
  UNION {LET call == MovedOpsOn(p)[k]
             o == call.arguments.offset
             l == call.arguments.limit
         IN  (o + 1)..(IF limited(l) THEN Min(o + l, FileLength(p))
                       ELSE FileLength(p)) :
           k \in 1..Len(MovedOpsOn(p))}

\* the lines tracked for the readable file p, given which limits bound a read
TrackedAs(p, limited(_)) ==
  IF \E k \in 1..Len(MovedOpsOn(p)) :
       MovedOpsOn(p)[k].name \in {"write_file", "replace"}
    THEN 1..FileLength(p)
    ELSE ReadUnion(p, limited)

\* C23 as stated: for a readable path with moved file operations, the lines
\* tracked are the whole file when a write_file or replace is among them,
\* wherever the reads stand; otherwise the union over the moved reads of
\* lines o+1..min(o+l, file length) for a read with limit l (at most l
\* lines) and of lines o+1..end for a read without limit.
C23_VfsMapping ==
  LET Given(l) == l # NoLimit IN
  Returned =>
    \A p \in DOMAIN disk :
      (MovedOpsOn(p) # <<>> /\ disk[p].ok) =>
        ShownLines(newMessages, p) = TrackedAs(p, Given)

\* C23 amended: as above, where a limit bounds the read only when it is at
\* least 1; a read with limit 0 is tracked like a read without limit.
C23_VfsMappingPositiveLimit ==
  LET Positive(l) == l \notin {NoLimit, 0} IN
  Returned =>
    \A p \in DOMAIN disk :
      /\ (MovedOpsOn(p) # <<>> /\ disk[p].ok) =>
           ShownLines(newMessages, p) = TrackedAs(p, Positive)
      /\ (MovedOpsOn(p) # <<>> /\ ~disk[p].ok) => ShownLines(newMessages, p) = {}

\* C23 witness: a limited read of /a followed by a write_file of /a, both
\* moved, and the section of /a shows more lines than the read asked for
C23_Witness ==
  /\ Returned
  /\ Len(MovedOpsOn("/a")) = 2
  /\ MovedOpsOn("/a")[1].name = "read_file"
  /\ MovedOpsOn("/a")[1].arguments.limit = 1
  /\ MovedOpsOn("/a")[2].name = "write_file"
  /\ ShownLines(newMessages, "/a") = 1..FileLength("/a")
  /\ FileLength("/a") >= 3

\* the tool results of the real conversation with the name of their call and
\* what the returned list holds for them: the content of the tool message
\* when it is kept, the Result of its entry when it is moved
ResultsReturned ==
  LET real == RealOf(finalMessages)
      blocks == PromptBlocks(newMessages)
  IN  {[name |-> ToolCallMapGet(finalMessages, real[i].tool_call_id).name,
        before |-> real[i].content,
        after |-> IF real[i].tool_call_id \in MovedIdsOf(finalMessages)
                    THEN blocks[CHOOSE b \in 1..Len(blocks) :
                                  blocks[b].k = "tool-call"].body[2]
                    ELSE newMessages[CHOOSE k \in 1..Len(newMessages) :
                                       newMessages[k].role = "tool"].content] :
         i \in {j \in 1..Len(real) : real[j].role = "tool"}}

\* a retained line: a hit whose text is over the line limit is cut to the
\* limit plus '...'
Shortened(line) ==
  IF line.hit /\ line.len > MaxLineChars
    THEN [line EXCEPT !.len = MaxLineChars + 3] ELSE line

\* the position of the n-th hit line of lines
NthHit(lines, n) ==
  CHOOSE i \in 1..Len(lines) :
    lines[i].hit /\ Cardinality({j \in 1..i : lines[j].hit}) = n

\* what truncation makes of lines when the lines in front of position cut + 1
\* stay
CutAfter(lines, cut) ==
  [i \in 1..cut |-> Shortened(lines[i])]
  \o <<TruncationLine(HitCount(lines) - MaxResults)>>

\* the result is returned as it is: another function, or no JSON with a
\* string output
Untouched(r) ==
  (r.name # "search_file_content" \/ r.before.kind # "json") => r.after = r.before

\* C24 as stated: for a search_file_content result that is JSON with a string
\* output of N hit lines, every line is kept in order when N <= 20, and when
\* N > 20 the output is the lines up to and including the 20th hit line
\* followed by the one line '[... truncated N-20 more results]', so that no
\* line after the 20th hit line stays; every other result is returned
\* unchanged.
C24_CutAtTwentiethHit ==
  Returned =>
    \A r \in ResultsReturned :
      /\ Untouched(r)
      /\ (r.name = "search_file_content" /\ r.before.kind = "json") =>
           /\ r.after.kind = "json"
           /\ r.after.out =
                IF HitCount(r.before.out) <= MaxResults
                  THEN [i \in 1..Len(r.before.out) |-> Shortened(r.before.out[i])]
                  ELSE CutAfter(r.before.out, NthHit(r.before.out, MaxResults))

\* C24 amended: when N > 20 the output is the lines in front of the 21st hit
\* line, the lines that are no hits between the 20th and the 21st hit line
\* included, followed by the one line '[... truncated N-20 more results]'.
C24_CutBeforeTwentyFirstHit ==
  Returned =>
    \A r \in ResultsReturned :
      /\ Untouched(r)
      /\ (r.name = "search_file_content" /\ r.before.kind = "json") =>
           /\ r.after.kind = "json"
           /\ r.after.out =
                IF HitCount(r.before.out) <= MaxResults
                  THEN [i \in 1..Len(r.before.out) |-> Shortened(r.before.out[i])]
                  ELSE CutAfter(r.before.out,
                                NthHit(r.before.out, MaxResults + 1) - 1)

\* C24 witness: a JSON result with more than 20 hit lines and a line that is
\* no hit between the 20th and the 21st is returned cut, and that line is
\* the one in front of the truncation line
C24_Witness ==
  /\ Returned
  /\ \E r \in ResultsReturned :
        /\ r.name = "search_file_content"
        /\ r.before.kind = "json"
        /\ HitCount(r.before.out) = MaxResults + 2
        /\ ~r.before.out[NthHit(r.before.out, MaxResults) + 1].hit
        /\ r.after.out[Len(r.after.out)] = TruncationLine(2)
        /\ r.after.out[Len(r.after.out) - 1]
             = r.before.out[NthHit(r.before.out, MaxResults) + 1]

\* the positions of the blocks of kind k in the returned system message
BlocksOfKind(k) ==
  {i \in 1..Len(PromptBlocks(newMessages)) : PromptBlocks(newMessages)[i].k = k}

\* C25: in the Current File States block every file entry but the last is
\* followed by exactly one '--- END OF FILE ---' divider, which stands right
\* in front of the next entry, and no divider follows the last entry; an
\* entry shown as 'file modified but content not tracked' is no exception.
C25_DividerBetweenEntries ==
  LET headings == BlocksOfKind("file-heading")
      dividers == BlocksOfKind("end-of-file")
  IN  Returned =>
        \A h \in headings :
          LET later == {g \in headings : g > h} IN
          IF later = {}
            THEN \A d \in dividers : d < h
            ELSE LET next == CHOOSE g \in later : \A f \in later : g <= f
                 IN  {d \in dividers : h < d /\ d < next} = {next - 1}

====
